---- MODULE Spec2Model ----
(***************************************************************************)
(* Sentinel DDoS: the request-admission pipeline (src/proxy/handler.py),   *)
(* the Redis sliding-window rate limiter (src/mitigation/rate_limiter.py), *)
(* the IP blocker (src/mitigation/blocker.py), the proof-of-work          *)
(* challenge (src/mitigation/challenge.py), the behaviour analyzer         *)
(* (src/detection/behavior.py), the heuristic scorer                       *)
(* (src/detection/scorer.py) and the lifecycle of the ML model             *)
(* (src/detection/ml_model.py).                                            *)
(*                                                                         *)
(* Time is time.time() in whole seconds.  A coroutine is cut at its awaits *)
(* on Redis and on the upstream: every such await is one action, so        *)
(* concurrent requests interleave exactly there.  A Redis pipeline is a    *)
(* MULTI/EXEC transaction (redis-py's default) and is one atomic step.     *)
(* uuid.uuid4() draws are pairwise distinct: the suffix of a member is    *)
(* the next one unused at its score.  A Redis round trip is short against  *)
(* the step of the clock: the clock does not advance between a call's      *)
(* time.time() reading and its last Redis reply.  A response is recorded   *)
(* in the slot of its request and is delivered before the next step.       *)
(* settings.protection_level and settings.under_attack_mode are set by the *)
(* admin API at any time; the pipeline reads them once, after scoring.     *)
(* Threat scores are in hundredths; behaviour and heuristic scores are     *)
(* exact fractions.  maybe_train() is cut where it awaits the lock and the *)
(* worker thread, and is called by the learn loop and by the admin API.    *)
(* _train_sync runs on the worker thread one assignment at a time, beside  *)
(* the event loop; score() and predict_label() read one attribute at a     *)
(* time.                                                                   *)
(***************************************************************************)
EXTENDS Integers, Sequences, FiniteSets, TLC

VARIABLES
    clock,              \* time.time()
    kvClient,           \* redis_manager.client is not None
    kvUp,               \* the Redis server answers
    zset,               \* sorted sets: key -> set of members
    zexp,               \* sorted sets: key -> expiry deadline (0: key absent)
    allowlist,          \* the set sentinel:allowlist
    blocklist,          \* the set sentinel:blocklist
    blockKey,           \* ip -> expiry deadline of block:<ip> (0: key absent)
    req,                \* slot -> the call or request it is running
    started,            \* calls / requests started so far
    rlRes,              \* what the last allow() / allow_with_count() returned
    ipLog,              \* ip -> the times of its executed per-IP checks
    rlHist,             \* ip -> what allow()/allow_with_count() returned so far
    blkRes,             \* what the last is_blocked() call returned
    wrRes,              \* the last block() / unblock() call and its outcome
    chRes,              \* what the last maybe_challenge() call returned
    issued,             \* the challenges generated so far, in order
    rules,              \* rules_engine._rules
    ruleRes,            \* what the last direct check_rule_limit() returned
    ruleLog,            \* (rule, ip) -> the times of its executed checks
    traffic,            \* the TrafficCounters of the proxy
    sessions,           \* behavior_analyzer._sessions: ip -> IPSession
    lastCleanup,        \* behavior_analyzer._last_cleanup
    behRes,             \* what the last record_and_score() returned
    behCalls,           \* ip -> record_and_score() calls since its session was created
    recorded,           \* the IPs record_and_score() was ever called for
    scoreRes,           \* the last AnomalyScorer.score() call and what it returned
    eng,                \* the score_request() call that is running, or the last one
    mlUp,               \* MLAnomalyModel.__init__ has run
    mlTrained,          \* ml_model._is_trained
    mlModel,            \* ml_model._model: the training run it comes from (0: None)
    mlScaler,           \* ml_model._scaler: the training run it comes from (0: None)
    mlLastTrain,        \* ml_model._last_train_time
    mlTrainCount,       \* ml_model._train_count
    mlBuffer,           \* len(ml_model._training_buffer)
    mlLock,             \* the caller holding ml_model._lock, or "none"
    mlCall,             \* caller -> its maybe_train() call in flight
    mlRes,              \* the last maybe_train() call that returned
    mlScoreRes,         \* the last score() / predict_label() call of the ML model
    mlRead,             \* the score() / predict_label() call that is running
    mlRaised,           \* the callers whose training run raised
    clsRes,             \* the last classify() call and what it returned
    matchRes,           \* the last match_request() call and what it returned
    blObs,              \* BaselineModel._observations: the timestamps, in deque order
    blReady,            \* BaselineModel.is_ready
    blCallAt,           \* time.time() of the last call of the baseline, -1: none
    blStats,            \* what the statistics of the baseline were computed from
    ban                 \* history: ips the ips the detection stage has blocked, with
                        \* no unblock(ip), allow(ip) or loss of Redis since; late
                        \* the slots whose request arrived when its ip was among them;
                        \* trusted the slots whose request arrived when its ip was
                        \* in the allowlist

rlVars == <<rlRes, ipLog>>
blkVars == <<blkRes, wrRes>>
chVars == <<chRes, issued>>
pxVars == <<rules>>
ruleVars == <<ruleRes, ruleLog>>
behVars == <<sessions, lastCleanup, behRes, behCalls, recorded>>
scVars == <<scoreRes, eng>>
mlVars == <<mlUp, mlTrained, mlModel, mlScaler, mlLastTrain, mlTrainCount,
            mlBuffer, mlLock, mlCall, mlRes, mlScoreRes, mlRead, mlRaised>>
clsVars == <<clsRes>>
matchVars == <<matchRes>>
blVars == <<blObs, blReady, blCallAt, blStats>>
banVars == <<ban>>
noBan == <<behVars, scVars, mlVars, clsVars, matchVars, blVars>>
detVars == <<noBan, banVars>>
notMl == <<kvClient, kvUp, zset, zexp, allowlist, blocklist, blockKey, req,
           rlHist, rlVars, blkVars, chVars, pxVars, ruleVars, traffic, behVars,
           scVars, clsVars, matchVars, banVars>>

vars == <<clock, kvClient, kvUp, zset, zexp, allowlist, blocklist, blockKey,
          req, started, rlHist, rlVars, blkVars, chVars, pxVars, ruleVars, traffic,
          detVars>>

----------------------------------------------------------------------------
(* Bounds of the model *)

NReq == 2                   \* coroutines in flight at once
MaxCalls == 3               \* direct calls started in one behaviour
MaxRequests == 2            \* proxied requests started in one behaviour
MaxClock == 105             \* last clock value explored
TickStep == 35              \* seconds between two clock readings
PxMaxClock == 70            \* last clock value explored, proxied requests
MaxChallenges == 2          \* maybe_challenge() calls in one behaviour
ChMaxClock == 5400          \* last clock value explored, challenge cookies
ChTickStep == 1800          \* seconds between two clock readings, challenge cookies
RateLimitPerIp == 1         \* settings.rate_limit_per_ip
RateLimitPerSubnet == 1     \* settings.rate_limit_per_subnet
RateLimitGlobal == 1        \* settings.rate_limit_global
MaxFlood == 7               \* requests of the flood on the login rule
MaxVaried == 4              \* record_and_score() calls with free inputs in one behaviour
BehMaxClock == 1250         \* last clock value explored, behaviour sessions
MaxRecords == 205           \* record_and_score() calls of one burst
MaxPaced == 6               \* calls of the burst the clock may advance between
BurstMaxClock == 15         \* last clock value explored, burst
MinTrainSamples == 50       \* config.min_train_samples
SampleStep == 50            \* record_sample() calls between two steps of the model
MaxSamples == 100           \* record_sample() calls in one behaviour
MaxMlCalls == 3             \* maybe_train() calls in one behaviour
MaxTrainErrors == 1         \* callers whose training run raises in one behaviour
MlTickStep == 300           \* seconds between two clock readings, ML model
MlMaxClock == 600           \* last clock value explored, ML model
MaxRuleCalls == 4           \* direct check_rule_limit() and allow() calls in one behaviour

(* Program constants *)

WINDOW_SEC == 60
ANOMALY_THRESHOLD == 75     \* settings.anomaly_threshold, in hundredths
KEY_SLACK_SEC == 10
CHALLENGE_TTL == 3600
SESSION_TTL == 600
CLEANUP_EVERY == 60
IAT_MAXLEN == 200
PATHS_MAXLEN == 100
RETRAIN_INTERVAL == 300     \* config.retrain_interval_sec
RETRAIN_MIN_SAMPLES == 100
MAX_SAMPLES == 2048         \* config.max_samples

IPs == {"10.0.0.1", "10.0.0.2", "::1"}
Clients == {"10.0.0.1", "::1"}     \* the clients of the proxy
Levels == {"monitor", "js_challenge", "rate_limit", "block", "blackhole"}
Paths == {"/", "/login", "/api/login", "/ws/live", "/openapi.json"}
ThreatScores == {74, 75}    \* score_request(), in hundredths
Reqs == 1..NReq

Min(a, b) == IF a <= b THEN a ELSE b

----------------------------------------------------------------------------
(* Python strings *)

\* str.split(":")
RECURSIVE SplitFrom(_, _, _)
SplitFrom(s, i, cur) ==
    IF i > Len(s) THEN <<cur>>
    ELSE IF SubSeq(s, i, i) = ":" THEN <<cur>> \o SplitFrom(s, i + 1, "")
    ELSE SplitFrom(s, i + 1, cur \o SubSeq(s, i, i))
Split(s) == SplitFrom(s, 1, "")

\* int(ts) of a decimal string; any other string raises ValueError
Digits == <<"0", "1", "2", "3", "4", "5", "6", "7", "8", "9">>
IsDigit(c) == \E d \in 1..10 : Digits[d] = c
DigitVal(c) == (CHOOSE d \in 1..10 : Digits[d] = c) - 1
IsNumeric(s) == Len(s) > 0 /\ \A i \in 1..Len(s) : IsDigit(SubSeq(s, i, i))
RECURSIVE IntFrom(_, _, _)
IntFrom(s, i, acc) ==
    IF i > Len(s) THEN acc
    ELSE IntFrom(s, i + 1, 10 * acc + DigitVal(SubSeq(s, i, i)))
IntOf(s) == IntFrom(s, 1, 0)

----------------------------------------------------------------------------
(* RateLimiter *)

IpToSubnet(ip) ==
    IF ip \in {"10.0.0.1", "10.0.0.2"} THEN "10.0.0.0/24" ELSE ip

IpKey(ip) == "rl:ip:" \o ip
SubKey(ip) == "rl:sub:" \o IpToSubnet(ip)
GlobalKey == "rl:global"

\* key = f"rl:rule:{rule_name}:{client_ip}"
RuleKeyNoName(name, ip) == "rl:rule:" \o ip
RuleKey(name, ip) == "rl:rule:" \o name \o ":" \o ip

\* the rules check_rule_limit() is called for: (limit, window_sec) as
\* parse_rate_string gives them
RuleNames == {"login", "catch"}
RuleParams(name) ==
    IF name = "login" THEN [limit |-> 2, window |-> 60]
    ELSE [limit |-> 1, window |-> 30]

Keys == {IpKey(ip) : ip \in IPs} \cup {SubKey(ip) : ip \in IPs} \cup {GlobalKey}
            \cup {RuleKey(name, ip) : name \in RuleNames, ip \in IPs}

\* member = f"{now}:{uuid.uuid4().hex[:8]}", stored with score now; the
\* uuid4 draws are pairwise distinct, and the suffix of a member is written
\* as the least number that makes it new in its sorted set
MemberNoSuffix(now, rnd) == <<now, 0>>
Member(now, rnd) == <<now, rnd>>
Score(m) == m[1]
FreshSuffix(key, now) == 1 + Cardinality({m \in zset[key] : Score(m) = now})

\* zremrangebyscore(key, "-inf", window_start); zadd(key, {member: now})
ZAfterPipeIfRoom(key, windowStart, member) ==
    LET kept == {m \in zset[key] : Score(m) > windowStart}
    IN  IF Cardinality(kept) < RateLimitPerIp THEN kept \cup {member} ELSE kept
ZAfterPipeKeepBoundary(key, windowStart, member) ==
    {m \in zset[key] : Score(m) >= windowStart} \cup {member}
ZAfterPipe(key, windowStart, member) ==
    {m \in zset[key] : Score(m) > windowStart} \cup {member}

\* zcard(key) of the pipeline
PipeCount(key, windowStart, member) ==
    Cardinality(ZAfterPipe(key, windowStart, member))

\* the four pipelined commands of _check_key, executed as one transaction
PipeExec(key, windowStart, member, ttl) ==
    /\ zset' = [zset EXCEPT ![key] = ZAfterPipe(key, windowStart, member)]
    /\ zexp' = [zexp EXCEPT ![key] = clock + ttl]

\* zcount(key, window_start, "+inf")
GetCount(key, windowStart) ==
    Cardinality({m \in zset[key] : Score(m) >= windowStart})

KvOk == kvClient /\ kvUp

\* what Redis holds about one ip, as is_blocked() reads it
NoSnap == [al |-> FALSE, key |-> FALSE, bl |-> FALSE]
NoResult == [ip |-> "none", out |-> "none", snap |-> NoSnap, stable |-> FALSE]
NoWrite == [ip |-> "none", out |-> "none", snap |-> NoSnap, stable |-> FALSE,
            dur |-> 0]

NoChallenge == [ip |-> "none", cookie |-> "", now |-> 0, out |-> "none",
                token |-> ""]
\* a slot: the position of the coroutine (pc), its arguments and locals, and
\* for a proxied request what it has done so far: status and stage of its
\* response, the rate-limit windows it inserted into (ins), whether
\* score_request recorded it (det), whether it was sent upstream (fwd), the
\* threat score, the settings it read, the escalation action and the
\* duration_sec it passed to block()
Idle == [pc |-> "idle", op |-> "none", ip |-> "none", now |-> 0,
         allowed |-> TRUE, snap |-> NoSnap, stable |-> TRUE,
         path |-> "none", cookie |-> "", status |-> 0, stage |-> "none",
         ins |-> 0, det |-> FALSE, fwd |-> FALSE, threat |-> 0,
         level |-> "none", uam |-> FALSE, act |-> "none", dur |-> 0,
         kvdown |-> FALSE, rule |-> "none", layer |-> "none"]

\* a rule file holds one rule: name "login", match.path "/login",
\* limits.per_ip "1/minute" and an escalation ladder
RuleLimit == 1
RuleWindow == 60
Rule(ladder) ==
    [name |-> "login", match_path |-> "/login", limit |-> RuleLimit,
     window |-> RuleWindow, escalation |-> ladder]

\* match_request / _path_matches on an exact path
RuleMatches(path) == \E i \in DOMAIN rules : rules[i].match_path = path

\* the stages of reverse_proxy before the upstream, in order
StageOrderRateFirst == <<"global", "blocklist", "rule", "detect">>
StageOrder == <<"blocklist", "rule", "global", "detect">>
StageAfter(stage) ==
    StageOrder[(CHOOSE i \in DOMAIN StageOrder : StageOrder[i] = stage) + 1]

\* where the request goes on when it comes to a stage: without a Redis
\* client is_blocked(), check_rule_limit() and allow_with_count() return at
\* once, and check_rule_limit() is called for a matched rule only
RECURSIVE EnterStage(_, _)
EnterStage(rec, stage) ==
    IF stage = "detect" THEN [rec EXCEPT !.pc = "detect"]
    ELSE IF ~kvClient
    THEN EnterStage([rec EXCEPT !.kvdown = TRUE], StageAfter(stage))
    ELSE IF stage = "blocklist" THEN [rec EXCEPT !.pc = "ib_allow"]
    ELSE IF stage = "global" THEN [rec EXCEPT !.pc = "rl_ip"]
    ELSE IF RuleMatches(rec.path) THEN [rec EXCEPT !.pc = "rule"]
    ELSE EnterStage(rec, StageAfter(stage))

\* the counters after a step of the coroutine in slot r: rate_limited on a
\* rule or global rejection and under RATE_LIMIT, challenged with every
\* challenge page, blocked with every 403, forwarded with every upstream
\* response; a direct call counts nothing
NoTraffic == [total |-> 0, blocked |-> 0, rate_limited |-> 0,
              forwarded |-> 0, challenged |-> 0]
Counted(r) ==
    LET old == req[r]
        new == req'[r]
        rejected == old.pc = "rule" /\ new.act # "none"
        t1 == IF rejected \/ (new.pc = "done" /\ new.status = 429
                                /\ new.stage \in {"global", "mitigation"})
              THEN [traffic EXCEPT !.rate_limited = @ + 1] ELSE traffic
        t2 == IF new.pc = "done" /\ new.status = 503
              THEN [t1 EXCEPT !.challenged = @ + 1] ELSE t1
        t3 == IF new.pc = "done" /\ new.status = 403
              THEN [t2 EXCEPT !.blocked = @ + 1] ELSE t2
        t4 == IF new.pc = "done" /\ new.status = 200
              THEN [t3 EXCEPT !.forwarded = @ + 1] ELSE t3
    IN  IF old.op = "req" THEN t4 ELSE traffic

\* the request in slot r answers
Respond(r, rec, status, stage) ==
    req' = [req EXCEPT ![r] = [rec EXCEPT !.pc = "done", !.status = status,
                                          !.stage = stage]]

Busy(r) == req[r].pc # "idle"
InFlight(ip) == \E r \in Reqs : Busy(r) /\ req[r].ip = ip

\* a response is sent as soon as it is made
NoneDone == \A r \in Reqs : req[r].pc # "done"

\* a call takes the lowest free slot
FreeSlot(r) == NoneDone /\ ~Busy(r) /\ \A q \in Reqs : q < r => Busy(q)

\* rlHist: the allow()/allow_with_count() calls on ip of the window under
\* observation; a new window opens with a call that starts at least
\* WINDOW_SEC after the previous call started, no call on ip being in flight
HistStart(h, ip) ==
    IF h.first < 0 \/ (clock - h.last >= WINDOW_SEC /\ ~InFlight(ip))
    THEN [first |-> clock, last |-> clock, n |-> 0, t |-> 0, clean |-> TRUE]
    ELSE [h EXCEPT !.last = clock]
HistReturn(h, allowed, clean) ==
    [h EXCEPT !.n = @ + 1, !.t = IF allowed THEN @ + 1 ELSE @,
              !.clean = @ /\ clean]

\* allow() / allow_with_count() returns (out = "ret") or raises (out =
\* "raised"): to the caller of a direct call, or into reverse_proxy, which
\* answers 429 on a rejection and goes on to score_request otherwise; an
\* exception leaves reverse_proxy and the server answers 500
NoRlResult == [ip |-> "none", op |-> "none", out |-> "none", allowed |-> TRUE,
               count |-> 0, ins |-> 0, layer |-> "none", expect |-> 0]

\* the executed per-IP checks of ip less than WINDOW_SEC before now, in log
InIpWindow(log, now) == {i \in DOMAIN log : now - log[i] < WINDOW_SEC}

Return(r, rec, out, allowed, count, clean) ==
    IF rec.op = "req"
    THEN /\ IF out = "raised" THEN Respond(r, rec, 500, "error")
            ELSE IF ~allowed THEN Respond(r, rec, 429, "global")
            ELSE req' = [req EXCEPT ![r] = EnterStage(rec, StageAfter("global"))]
         /\ UNCHANGED <<rlHist, rlRes>>
    ELSE /\ req' = [req EXCEPT ![r] = Idle]
         /\ rlHist' = [rlHist EXCEPT ![rec.ip] = HistReturn(@, allowed, clean)]
         /\ rlRes' = [ip |-> rec.ip, op |-> rec.op, out |-> out,
                      allowed |-> allowed, count |-> count, ins |-> rec.ins,
                      layer |-> rec.layer,
                      expect |-> Cardinality(InIpWindow(ipLog'[rec.ip], rec.now))]

\* allow() / allow_with_count(): the entry up to the first await
CallAllow(r, ip, op) ==
    /\ FreeSlot(r)
    /\ started < MaxCalls
    /\ started' = started + 1
    /\ IF ~kvClient
       THEN /\ rlHist' = [rlHist EXCEPT ![ip] =
                            HistReturn(HistStart(@, ip), TRUE, FALSE)]
            /\ rlRes' = [NoRlResult EXCEPT !.ip = ip, !.op = op, !.out = "open"]
            /\ UNCHANGED req
       ELSE /\ req' = [req EXCEPT ![r] =
                        [Idle EXCEPT !.pc = "rl_ip", !.op = op, !.ip = ip,
                                     !.now = clock]]
            /\ rlHist' = [rlHist EXCEPT ![ip] = HistStart(@, ip)]
            /\ UNCHANGED rlRes
    /\ UNCHANGED <<ipLog, clock, kvClient, detVars, kvUp, zset, zexp, allowlist, blocklist, blockKey,
                   blkVars, chVars, pxVars, ruleVars, traffic>>

\* _check_key on one layer: what the layer's await resumes with
LayerKey(rec) ==
    CASE rec.pc = "rl_ip" -> IpKey(rec.ip)
      [] rec.pc = "rl_sub" -> SubKey(rec.ip)
      [] OTHER -> GlobalKey
LayerLimit(rec) ==
    CASE rec.pc = "rl_ip" -> RateLimitPerIp
      [] rec.pc = "rl_sub" -> RateLimitPerSubnet
      [] OTHER -> RateLimitGlobal
LayerNext(rec) ==
    CASE rec.pc = "rl_ip" -> "rl_sub"
      [] rec.pc = "rl_sub" -> "rl_glob"
      [] OTHER -> "rl_cnt"

\* the layer a call goes to after a _check_key: the closing _get_count (or
\* the return of allow()) on a rejection
AfterLayerNoShortCircuit(rec, ok) == LayerNext(rec)
AfterLayer(rec, ok) == IF ok THEN LayerNext(rec) ELSE "rl_cnt"

CheckKeyAllowsLt(count, limit) == count < limit
CheckKeyAllows(count, limit) == count <= limit

\* one _check_key of allow() / allow_with_count()
RlLayer(r) ==
    LET rec == req[r]
        key == LayerKey(rec)
        ws == rec.now - WINDOW_SEC
        m == Member(rec.now, FreshSuffix(key, rec.now))
        ok == ~kvClient \/ CheckKeyAllows(PipeCount(key, ws, m), LayerLimit(rec))
        rec1 == IF kvClient
                THEN [rec EXCEPT !.ins = @ + 1,
                                 !.layer = IF ~ok /\ @ = "none" THEN rec.pc ELSE @]
                ELSE rec
        next == AfterLayer(rec, ok /\ rec.allowed)
    IN  /\ NoneDone
        /\ rec.pc \in {"rl_ip", "rl_sub", "rl_glob"}
        /\ rec.op \in {"allow", "awc", "req"}
        /\ ipLog' = IF KvOk /\ rec.pc = "rl_ip" /\ rec.op # "req"
                    THEN [ipLog EXCEPT ![rec.ip] = Append(@, rec.now)]
                    ELSE ipLog
        /\ IF kvClient /\ ~kvUp
           THEN /\ Return(r, [rec EXCEPT !.kvdown = TRUE], "raised", FALSE, 0, FALSE)
                /\ UNCHANGED <<zset, zexp>>
           ELSE /\ IF kvClient
                   THEN PipeExec(key, ws, m, WINDOW_SEC + KEY_SLACK_SEC)
                   ELSE UNCHANGED <<zset, zexp>>
                /\ IF rec.op = "allow" /\ next = "rl_cnt"
                   THEN Return(r, rec1, "ret", ok /\ rec.allowed, 0,
                               kvClient /\ (ok \/ rec.pc = "rl_ip"))
                   ELSE /\ req' = [req EXCEPT ![r] =
                             [rec1 EXCEPT !.pc = next, !.allowed = @ /\ ok]]
                        /\ UNCHANGED rlRes
                        /\ rlHist' = IF rec.op = "req" THEN rlHist
                                      ELSE [rlHist EXCEPT ![rec.ip].clean =
                                              @ /\ kvClient /\ (ok \/ rec.pc = "rl_ip")]
        /\ traffic' = Counted(r)
        /\ UNCHANGED <<clock, kvClient, detVars, kvUp, allowlist, blocklist, blockKey, started,
                   blkVars, chVars, pxVars, ruleVars>>

\* allow_with_count(): the closing _get_count
RlCount(r) ==
    LET rec == req[r]
        ws == rec.now - WINDOW_SEC
    IN  /\ NoneDone
        /\ rec.pc = "rl_cnt"
        /\ rec.op \in {"awc", "req"}
        /\ UNCHANGED ipLog
        /\ IF ~kvClient
           THEN Return(r, [rec EXCEPT !.kvdown = TRUE], "ret", rec.allowed, 0, FALSE)
           ELSE IF ~kvUp
           THEN Return(r, [rec EXCEPT !.kvdown = TRUE], "raised", FALSE, 0, FALSE)
           ELSE Return(r, rec, "ret", rec.allowed, GetCount(IpKey(rec.ip), ws), TRUE)
        /\ traffic' = Counted(r)
        /\ UNCHANGED <<clock, kvClient, detVars, kvUp, zset, zexp, allowlist, blocklist,
                       blockKey, started,
                   blkVars, chVars, pxVars, ruleVars>>

----------------------------------------------------------------------------
(* RulesEngine and the escalation helpers of the proxy *)

Step(t, a, d) == [threshold |-> t, action |-> a, duration |-> d]
Ladders ==
    { <<Step(80, "js_challenge", "1m"), Step(95, "block", "40s")>>,
      <<Step(250, "block", ""), Step(150, "js_challenge", "1m")>>,
      <<Step(100, "block", "")>>,
      <<Step(100, "monitor", "")>> }

\* sorted(steps, key=lambda s: s.threshold): a stable sort
RECURSIVE Insert(_, _)
Insert(sorted, step) ==
    IF sorted = <<>> THEN <<step>>
    ELSE IF step.threshold < Head(sorted).threshold THEN <<step>> \o sorted
    ELSE <<Head(sorted)>> \o Insert(Tail(sorted), step)
RECURSIVE SortSteps(_)
SortSteps(steps) ==
    IF steps = <<>> THEN <<>>
    ELSE Insert(SortSteps(SubSeq(steps, 1, Len(steps) - 1)), steps[Len(steps)])

\* usage_pct >= step.threshold, with usage_pct = count / limit * 100 (0 when
\* the limit is 0)
UsageReaches(count, limit, threshold) ==
    IF limit = 0 THEN 0 >= threshold ELSE count * 100 >= threshold * limit

\* _resolve_escalation
RECURSIVE ResolveFrom(_, _, _, _)
ResolveFrom(sorted, count, limit, action) ==
    IF sorted = <<>> THEN action
    ELSE ResolveFrom(Tail(sorted), count, limit,
                     IF UsageReaches(count, limit, Head(sorted).threshold)
                     THEN Head(sorted).action ELSE action)
ResolveEscalation(steps, count, limit) ==
    ResolveFrom(SortSteps(steps), count, limit, "rate_limit")

\* _duration_to_seconds
DurationToSeconds(dur) ==
    LET unit == SubSeq(dur, Len(dur), Len(dur))
        num == IntOf(SubSeq(dur, 1, Len(dur) - 1))
    IN  CASE unit = "m" -> num * 60
          [] unit = "h" -> num * 3600
          [] unit = "d" -> num * 86400
          [] unit = "s" -> num
          [] OTHER -> IntOf(dur)

\* _parse_duration: None is 0, which block() treats alike
RECURSIVE ParseFromLowest(_)
ParseFromLowest(sorted) ==
    IF sorted = <<>> THEN 0
    ELSE IF Head(sorted).duration # ""
    THEN DurationToSeconds(Head(sorted).duration)
    ELSE ParseFromLowest(Tail(sorted))
ParseDurationLowest(steps) == ParseFromLowest(SortSteps(steps))
RECURSIVE ParseFrom(_)
ParseFrom(sorted) ==
    IF sorted = <<>> THEN 0
    ELSE IF sorted[Len(sorted)].duration # ""
    THEN DurationToSeconds(sorted[Len(sorted)].duration)
    ELSE ParseFrom(SubSeq(sorted, 1, Len(sorted) - 1))
ParseDuration(steps) == ParseFrom(SortSteps(steps))

----------------------------------------------------------------------------
(* IPBlocker *)

\* duration_sec of block(): None and 0 both take the permanent branch
BlockDurations == {0, 40}

BlockerState(ip) ==
    [al |-> ip \in allowlist, key |-> blockKey[ip] # 0, bl |-> ip \in blocklist]

\* sismember(ALLOWLIST_KEY, ip), exists(f"block:{ip}"), sismember(BLOCKLIST_KEY, ip)
OnAllowlistNever(ip) == FALSE
OnAllowlist(ip) == ip \in allowlist
HasBlockKey(ip) == blockKey[ip] # 0
OnBlocklistNever(ip) == FALSE
OnBlocklist(ip) == ip \in blocklist

\* the history of the detection stage's blocks: a block() of the mitigation
\* branch that wrote to Redis puts ip among the blocked unless it is
\* allowlisted; unblock(ip), from its call to its return, and allow(ip) take
\* it out, a loss of Redis all of them, together with the requests in flight
BanBlocked(b, ip) == [b EXCEPT !.ips = @ \cup {ip}]
BanLifted(b, lifted) ==
    [ips |-> b.ips \ lifted,
     late |-> {r \in b.late : req[r].ip \notin lifted},
     trusted |-> b.trusted]
\* is_blocked() returns out; stable: Redis held the same about ip at every
\* read of the call
\* into reverse_proxy it answers 403 on True and goes on to the matched
\* rules, or to allow_with_count() when no rule matches, on False
IbReturn(r, out) ==
    LET rec == req[r]
    IN  IF rec.op = "req"
        THEN /\ IF out = "raised"
                THEN Respond(r, [rec EXCEPT !.kvdown = TRUE], 500, "error")
                ELSE IF out = "True" THEN Respond(r, rec, 403, "blocklist")
                ELSE req' = [req EXCEPT ![r] =
                               EnterStage(rec, StageAfter("blocklist"))]
             /\ UNCHANGED blkRes
        ELSE /\ req' = [req EXCEPT ![r] = Idle]
             /\ blkRes' = [ip |-> rec.ip, out |-> out, snap |-> rec.snap,
                           stable |-> rec.stable /\ BlockerState(rec.ip) = rec.snap]

IbGoto(r, pc) ==
    LET rec == req[r]
    IN  /\ req' = [req EXCEPT ![r] =
                     [rec EXCEPT !.pc = pc,
                                 !.stable = @ /\ (rec.op = "req" \/
                                                BlockerState(rec.ip) = rec.snap)]]
        /\ UNCHANGED blkRes

\* is_blocked(): the entry up to the first await
CallIsBlocked(r, ip) ==
    /\ FreeSlot(r)
    /\ started < MaxCalls
    /\ started' = started + 1
    /\ IF ~kvClient
       THEN /\ blkRes' = [ip |-> ip, out |-> "False", snap |-> BlockerState(ip),
                          stable |-> TRUE]
            /\ UNCHANGED req
       ELSE /\ req' = [req EXCEPT ![r] =
                        [Idle EXCEPT !.pc = "ib_allow", !.op = "is_blocked",
                                     !.ip = ip, !.snap = BlockerState(ip)]]
            /\ UNCHANGED blkRes
    /\ UNCHANGED <<clock, kvClient, detVars, kvUp, zset, zexp, allowlist, blocklist,
                   blockKey, rlHist, rlVars, wrRes, chVars, pxVars, ruleVars, traffic>>

\* is_blocked(): the allowlist read
IsBlockedAllowlist(r) ==
    /\ req[r].pc = "ib_allow"
    /\ NoneDone
    /\ req[r].op \in {"is_blocked", "req"}
    /\ IF ~kvUp THEN IbReturn(r, "raised")
       ELSE IF OnAllowlist(req[r].ip) THEN IbReturn(r, "False")
       ELSE IbGoto(r, "ib_key")
    /\ traffic' = Counted(r)
    /\ UNCHANGED <<clock, kvClient, detVars, kvUp, zset, zexp, allowlist, blocklist,
                   blockKey, started, rlHist, rlVars, wrRes, chVars, pxVars, ruleVars>>

\* is_blocked(): the block:<ip> read
IsBlockedKey(r) ==
    /\ req[r].pc = "ib_key"
    /\ NoneDone
    /\ req[r].op \in {"is_blocked", "req"}
    /\ IF ~kvUp THEN IbReturn(r, "raised")
       ELSE IF HasBlockKey(req[r].ip) THEN IbReturn(r, "True")
       ELSE IbGoto(r, "ib_set")
    /\ traffic' = Counted(r)
    /\ UNCHANGED <<clock, kvClient, detVars, kvUp, zset, zexp, allowlist, blocklist,
                   blockKey, started, rlHist, rlVars, wrRes, chVars, pxVars, ruleVars>>

\* is_blocked(): the blocklist read
IsBlockedSet(r) ==
    /\ req[r].pc = "ib_set"
    /\ NoneDone
    /\ req[r].op \in {"is_blocked", "req"}
    /\ IF ~kvUp THEN IbReturn(r, "raised")
       ELSE IF OnBlocklist(req[r].ip) THEN IbReturn(r, "True")
       ELSE IbReturn(r, "False")
    /\ traffic' = Counted(r)
    /\ UNCHANGED <<clock, kvClient, detVars, kvUp, zset, zexp, allowlist, blocklist,
                   blockKey, started, rlHist, rlVars, wrRes, chVars, pxVars, ruleVars>>

\* what block(ip, reason, duration_sec) writes
BlockEffectBoth(ip, dur) ==
    IF ~KvOk THEN UNCHANGED <<blockKey, blocklist>>
    ELSE /\ blocklist' = blocklist \cup {ip}
         /\ blockKey' = IF dur # 0 THEN [blockKey EXCEPT ![ip] = clock + dur]
                        ELSE blockKey
BlockEffect(ip, dur) ==
    IF ~KvOk THEN UNCHANGED <<blockKey, blocklist>>
    ELSE IF dur # 0
    THEN /\ blockKey' = [blockKey EXCEPT ![ip] = clock + dur]
         /\ UNCHANGED blocklist
    ELSE /\ blocklist' = blocklist \cup {ip}
         /\ UNCHANGED blockKey

\* the outcome of a blocker write: done, nothing done for want of a
\* client, or the exception of the unreachable server
WriteOutcome(done) ==
    IF ~kvClient THEN "noop" ELSE IF ~kvUp THEN "raised" ELSE done

\* block(): one Redis command; wrRes keeps the call, and an unblock(ip) in
\* flight is no longer alone
Block(ip, dur) ==
    /\ started < MaxCalls
    /\ started' = started + 1
    /\ BlockEffect(ip, dur)
    /\ wrRes' = [ip |-> ip, out |-> WriteOutcome("blocked"),
                  snap |-> NoSnap, stable |-> TRUE, dur |-> dur]
    /\ req' = [r \in Reqs |->
                IF req[r].op = "unblock" /\ req[r].ip = ip
                THEN [req[r] EXCEPT !.stable = FALSE] ELSE req[r]]
    /\ UNCHANGED <<clock, kvClient, detVars, kvUp, zset, zexp, allowlist,
                   rlHist, rlVars, blkRes, chVars, pxVars, ruleVars, traffic>>

\* unblock(): delete(f"block:{ip}")
UnblockDelete(r, ip) ==
    /\ FreeSlot(r)
    /\ started < MaxCalls
    /\ started' = started + 1
    /\ IF KvOk
       THEN /\ blockKey' = [blockKey EXCEPT ![ip] = 0]
            /\ req' = [req EXCEPT ![r] =
                        [Idle EXCEPT !.pc = "ub_srem", !.op = "unblock", !.ip = ip,
                                     !.snap = BlockerState(ip)]]
            /\ UNCHANGED wrRes
       ELSE /\ wrRes' = [ip |-> ip, out |-> WriteOutcome("unblocked"),
                          snap |-> NoSnap, stable |-> TRUE, dur |-> 0]
            /\ UNCHANGED <<blockKey, req>>
    /\ UNCHANGED <<clock, kvClient, noBan, kvUp, zset, zexp, allowlist, blocklist,
                   rlHist, rlVars, blkRes, chVars, pxVars, ruleVars, traffic>>
    /\ ban' = BanLifted(ban, {ip})

\* unblock(): srem(BLOCKLIST_KEY, ip)
UnblockSrem(r) ==
    /\ req[r].pc = "ub_srem"
    /\ req[r].op = "unblock"
    /\ blocklist' = IF kvUp THEN blocklist \ {req[r].ip} ELSE blocklist
    /\ wrRes' = [ip |-> req[r].ip, out |-> WriteOutcome("unblocked"),
                  snap |-> req[r].snap, stable |-> req[r].stable, dur |-> 0]
    /\ req' = [req EXCEPT ![r] = Idle]
    /\ UNCHANGED <<clock, kvClient, noBan, kvUp, zset, zexp, allowlist, blockKey,
                   started, rlHist, rlVars, blkRes, chVars, pxVars, ruleVars, traffic>>
    /\ ban' = BanLifted(ban, {req[r].ip})

\* allow(): sadd(ALLOWLIST_KEY, ip)
BlockerAllow(ip) ==
    /\ started < MaxCalls
    /\ started' = started + 1
    /\ allowlist' = IF KvOk THEN allowlist \cup {ip} ELSE allowlist
    /\ UNCHANGED <<clock, kvClient, noBan, kvUp, zset, zexp, blocklist, blockKey,
                   req, rlHist, rlVars, blkVars, chVars, pxVars, ruleVars, traffic>>
    /\ ban' = BanLifted(ban, {ip})

----------------------------------------------------------------------------
(* ChallengeManager *)

\* hmac.new(secret, data, sha256).hexdigest(): one digest per message, and
\* a digest holds no ':'
RECURSIVE HexFrom(_, _)
HexFrom(s, i) ==
    IF i > Len(s) THEN ""
    ELSE (IF SubSeq(s, i, i) = ":" THEN "|" ELSE SubSeq(s, i, i)) \o HexFrom(s, i + 1)
Hmac(data) == "h" \o HexFrom(data, 1)

\* hashlib.sha256(pow_input).hexdigest().startswith("00"): a fixed function
\* of the input under which one of the page's first three nonces solves
\* every token
LastDigit(s) ==
    IF Len(s) > 0 /\ IsDigit(SubSeq(s, Len(s), Len(s)))
    THEN DigitVal(SubSeq(s, Len(s), Len(s))) ELSE 0
Sha256Starts00(s) == (Len(s) + LastDigit(s)) % 3 = 0
PowNonces == {"0", "1", "2"}

\* secrets.token_hex(16): draws are pairwise distinct
TokenHex(n) == "a" \o ToString(n)

\* data = f"{client_ip}:{nonce}:{ts}"
ChallengeData(ip, nonce, ts) == ip \o ":" \o nonce \o ":" \o ts

\* _generate_challenge
GenerateChallenge(ip, n, now) ==
    LET data == ChallengeData(ip, TokenHex(n), ToString(now))
    IN  data \o ":" \o Hmac(data)

ExpiredGe(now, ts) == now - ts >= CHALLENGE_TTL
Expired(now, ts) == now - ts > CHALLENGE_TTL

\* _verify_token
VerifyToken(token, client_ip, now) ==
    LET parts == Split(token)
    IN  IF Len(parts) # 5 THEN FALSE
        ELSE LET ip == parts[1]
                 nonce == parts[2]
                 ts == parts[3]
                 sig == parts[4]
                 pow_nonce == parts[5]
                 original == ChallengeData(ip, nonce, ts)
                 full_token == original \o ":" \o sig
             IN  IF ip # client_ip THEN FALSE
                 ELSE IF ~IsNumeric(ts) THEN FALSE
                 ELSE IF Expired(now, IntOf(ts)) THEN FALSE
                 ELSE IF sig # Hmac(original) THEN FALSE
                 ELSE Sha256Starts00(full_token \o ":" \o pow_nonce)

\* the cookies a client may present: none (""), an issued token completed by
\* the page's script, and malformed or forged variants of it
Range(f) == {f[i] : i \in DOMAIN f}
CookiesOf(tok) ==
    LET parts == Split(tok)
        ip == parts[1]
        nonce == parts[2]
    IN  {tok \o ":" \o p : p \in PowNonces}
        \cup {tok, tok \o ":0:0"}
        \cup {c \in {ChallengeData(ip, nonce, ToString(clock)) \o ":bad:" \o p :
                        p \in PowNonces} : Sha256Starts00(c)}
        \cup {c \in {ChallengeData(ip, nonce, "soon") \o ":"
                        \o Hmac(ChallengeData(ip, nonce, "soon")) \o ":" \o p :
                        p \in PowNonces} : Sha256Starts00(c)}
Cookies == {"", "garbage"} \cup UNION {CookiesOf(tok) : tok \in Range(issued)}

\* maybe_challenge
MaybeChallenge(ip, cookie) ==
    /\ started < MaxChallenges
    /\ started' = started + 1
    /\ IF cookie # "" /\ VerifyToken(cookie, ip, clock)
       THEN /\ chRes' = [ip |-> ip, cookie |-> cookie, now |-> clock,
                         out |-> "pass", token |-> ""]
            /\ UNCHANGED issued
       ELSE LET token == GenerateChallenge(ip, Len(issued) + 1, clock)
            IN  /\ chRes' = [ip |-> ip, cookie |-> cookie, now |-> clock,
                             out |-> "503", token |-> token]
                /\ issued' = Append(issued, token)
    /\ UNCHANGED <<clock, kvClient, detVars, kvUp, zset, zexp, allowlist, blocklist,
                   blockKey, req, rlHist, rlVars, blkVars, pxVars, ruleVars, traffic>>

----------------------------------------------------------------------------
(* reverse_proxy *)

\* the cookie of a request: none, or an issued token completed by the page
RequestCookies ==
    {""} \cup {c \in {tok \o ":" \o p : tok \in Range(issued), p \in PowNonces} :
                 Sha256Starts00(c)}

\* request_path.startswith(("/api/", "/ws/", "/openapi.json"))
StartsWith(s, prefix) ==
    Len(s) >= Len(prefix) /\ SubSeq(s, 1, Len(prefix)) = prefix
ReservedPathApiOnly(path) == StartsWith(path, "/api/")
ReservedPath(path) ==
    \E prefix \in {"/api/", "/ws/", "/openapi.json"} : StartsWith(path, prefix)

\* lifespan: rules_engine.load_from_directory(); the first request is
\* served after it
LoadRules(ladder) ==
    /\ rules = <<>>
    /\ started = 0
    /\ rules' = <<Rule(ladder)>>
    /\ UNCHANGED <<clock, kvClient, detVars, kvUp, zset, zexp, allowlist, blocklist,
                   blockKey, req, started, rlHist, rlVars, blkVars, chVars, ruleVars, traffic>>

\* a request to a proxied path arrives in slot r
BanArrival(b, r, ip, path) ==
    [b EXCEPT !.late = IF ip \in b.ips /\ ~ReservedPath(path)
                       THEN @ \cup {r} ELSE @ \ {r},
              !.trusted = IF ip \in allowlist /\ ~ReservedPath(path)
                          THEN @ \cup {r} ELSE @ \ {r}]

\* a request arrives: the reserved-path test, then up to the first await of
\* is_blocked(); without a Redis client is_blocked(), check_rule_limit() and
\* allow_with_count() return at once
Admit(r, ip, path, cookie) ==
    LET rec == [Idle EXCEPT !.op = "req", !.ip = ip, !.path = path,
                            !.cookie = cookie, !.now = clock,
                            !.snap = NoSnap]
    IN  /\ FreeSlot(r)
        /\ rules # <<>>
        /\ started' = started + 1
        /\ IF ReservedPath(path) THEN Respond(r, rec, 404, "reserved")
           ELSE req' = [req EXCEPT ![r] = EnterStage(rec, StageOrder[1])]
        /\ traffic' = IF ReservedPath(path) THEN traffic
                      ELSE [traffic EXCEPT !.total = @ + 1]
        /\ UNCHANGED <<clock, kvClient, noBan, kvUp, zset, zexp, allowlist, blocklist,
                       blockKey, rlHist, rlVars, blkVars, chVars, pxVars, ruleVars>>
        /\ ban' = BanArrival(ban, r, ip, path)

Request(r, ip, path, cookie) ==
    /\ started < MaxRequests
    /\ Admit(r, ip, path, cookie)

\* the rule of the rule file of section 6: Login Protection, per_ip
\* "5/minute", 80 -> js_challenge, 95 -> block for "1h"; scenario E4 posts
\* to the path the rule protects
LoginProtection(path) ==
    [name |-> "login", match_path |-> path, limit |-> 5, window |-> 60,
     escalation |-> <<Step(80, "js_challenge", ""), Step(95, "block", "1h")>>]

LoadLogin(path) ==
    /\ rules = <<>>
    /\ started = 0
    /\ rules' = <<LoginProtection(path)>>
    /\ UNCHANGED <<clock, kvClient, detVars, kvUp, zset, zexp, allowlist, blocklist,
                   blockKey, req, started, rlHist, rlVars, blkVars, chVars, ruleVars, traffic>>

FloodRequest(r, ip, cookie) ==
    /\ started < MaxFlood
    /\ Admit(r, ip, rules[1].match_path, cookie)

\* maybe_challenge() inside reverse_proxy: the page, or nothing
ChallengePasses(rec) == rec.cookie # "" /\ VerifyToken(rec.cookie, rec.ip, clock)
ServePage(r, rec, stage) ==
    /\ Respond(r, rec, 503, stage)
    /\ issued' = Append(issued, GenerateChallenge(rec.ip, Len(issued) + 1, clock))

RuleAllows(count, limit) == count <= limit

\* check_rule_limit() of the matched rule and the escalation on a rejection
RuleCheck(r) ==
    LET rec == req[r]
        rule == rules[1]
        key == RuleKey(rule.name, rec.ip)
        ws == rec.now - rule.window
        m == Member(rec.now, FreshSuffix(key, rec.now))
        count == PipeCount(key, ws, m)
        act == ResolveEscalation(rule.escalation, count, rule.limit)
        rec1 == [rec EXCEPT !.ins = @ + 1]
        rec2 == [rec1 EXCEPT !.act = act]
    IN  /\ NoneDone
        /\ rec.pc = "rule"
        /\ rec.op = "req"
        /\ IF ~kvUp
           THEN /\ Respond(r, [rec EXCEPT !.kvdown = TRUE], 500, "error")
                /\ UNCHANGED <<zset, zexp, issued>>
           ELSE /\ PipeExec(key, ws, m, rule.window + KEY_SLACK_SEC)
                /\ IF RuleAllows(count, rule.limit)
                   THEN /\ req' = [req EXCEPT ![r] = EnterStage(rec1, StageAfter("rule"))]
                        /\ UNCHANGED issued
                   ELSE IF act = "block"
                   THEN /\ req' = [req EXCEPT ![r] =
                                 [rec2 EXCEPT !.pc = "rule_block",
                                              !.dur = ParseDuration(rule.escalation)]]
                        /\ UNCHANGED issued
                   ELSE IF act = "js_challenge" /\ ~ChallengePasses(rec)
                   THEN ServePage(r, rec2, "rule")
                   ELSE /\ Respond(r, rec2, 429, "rule")
                        /\ UNCHANGED issued
        /\ traffic' = Counted(r)
        /\ UNCHANGED <<clock, kvClient, detVars, kvUp, allowlist, blocklist, blockKey,
                       started, rlHist, rlVars, blkVars, chRes, pxVars, ruleVars>>

NoRuleResult == [rule |-> "none", ip |-> "none", now |-> 0, out |-> "none",
                 allowed |-> TRUE, count |-> 0]

\* check_rule_limit() called directly: the entry up to the await
CallRuleLimit(r, ip, name) ==
    /\ FreeSlot(r)
    /\ started < MaxRuleCalls
    /\ started' = started + 1
    /\ IF ~kvClient
       THEN /\ ruleRes' = [rule |-> name, ip |-> ip, now |-> clock,
                           out |-> "open", allowed |-> TRUE, count |-> 0]
            /\ UNCHANGED req
       ELSE /\ req' = [req EXCEPT ![r] =
                        [Idle EXCEPT !.pc = "rule", !.op = "rule", !.ip = ip,
                                     !.now = clock, !.rule = name]]
            /\ UNCHANGED ruleRes
    /\ UNCHANGED <<clock, kvClient, detVars, kvUp, zset, zexp, allowlist, blocklist,
                   blockKey, rlHist, rlVars, blkVars, chVars, pxVars, ruleLog,
                   traffic>>

\* check_rule_limit() called directly: the pipeline and the return
RuleLimitExec(r) ==
    LET rec == req[r]
        par == RuleParams(rec.rule)
        key == RuleKey(rec.rule, rec.ip)
        ws == rec.now - par.window
        m == Member(rec.now, FreshSuffix(key, rec.now))
        count == PipeCount(key, ws, m)
    IN  /\ NoneDone
        /\ rec.pc = "rule"
        /\ rec.op = "rule"
        /\ req' = [req EXCEPT ![r] = Idle]
        /\ IF ~kvUp
           THEN /\ ruleRes' = [rule |-> rec.rule, ip |-> rec.ip, now |-> rec.now,
                               out |-> "raised", allowed |-> FALSE, count |-> 0]
                /\ UNCHANGED <<zset, zexp, ruleLog>>
           ELSE /\ PipeExec(key, ws, m, par.window + KEY_SLACK_SEC)
                /\ ruleRes' = [rule |-> rec.rule, ip |-> rec.ip, now |-> rec.now,
                               out |-> "ret",
                               allowed |-> RuleAllows(count, par.limit),
                               count |-> count]
                /\ ruleLog' = [ruleLog EXCEPT ![<<rec.rule, rec.ip>>] =
                                 Append(@, rec.now)]
        /\ UNCHANGED <<clock, kvClient, detVars, kvUp, allowlist, blocklist, blockKey,
                       started, rlHist, rlVars, blkVars, chVars, pxVars, traffic>>

\* level = settings.protection_level, BLOCK under under_attack_mode
EffectiveLevelIgnoringMode(protection_level, under_attack_mode) ==
    protection_level
EffectiveLevel(protection_level, under_attack_mode) ==
    IF under_attack_mode THEN "block" ELSE protection_level

ReachesThreshold(threat) == threat >= ANOMALY_THRESHOLD

\* the if / elif chain on the level, for a score at or above the threshold;
\* passes: the request carries a valid challenge cookie
MitigationActionNoBlackhole(level, passes) ==
    CASE level = "js_challenge" -> IF passes THEN "forward" ELSE "challenge"
      [] level = "rate_limit" -> "rate_limit"
      [] level = "block" -> "block"
      [] OTHER -> "forward"
MitigationAction(level, passes) ==
    CASE level = "js_challenge" -> IF passes THEN "forward" ELSE "challenge"
      [] level = "rate_limit" -> "rate_limit"
      [] level \in {"block", "blackhole"} -> "block"
      [] OTHER -> "forward"

\* score_request() and the graduated mitigation up to its first await.
\* The admin API writes settings.protection_level and
\* settings.under_attack_mode at any moment and reverse_proxy reads them
\* here, once: the values read are inputs of the step, kept in the slot when
\* the score reaches the threshold and the code branches on them
Detect(r, threat, protection_level, under_attack_mode) ==
    LET rec == req[r]
        rec0 == [rec EXCEPT !.det = TRUE, !.threat = threat]
        rec1 == IF ReachesThreshold(threat)
                THEN [rec0 EXCEPT !.level = protection_level,
                                  !.uam = under_attack_mode]
                ELSE rec0
        level == EffectiveLevel(protection_level, under_attack_mode)
        action == IF ReachesThreshold(threat)
                  THEN MitigationAction(level, ChallengePasses(rec))
                  ELSE "forward"
    IN  /\ NoneDone
        /\ rec.pc = "detect"
        /\ rec.op = "req"
        /\ IF action = "forward"
           THEN /\ req' = [req EXCEPT ![r] = [rec1 EXCEPT !.pc = "forward"]]
                /\ UNCHANGED issued
           ELSE IF action = "challenge"
           THEN ServePage(r, rec1, "mitigation")
           ELSE IF action = "rate_limit"
           THEN /\ Respond(r, rec1, 429, "mitigation")
                /\ UNCHANGED issued
           ELSE /\ req' = [req EXCEPT ![r] = [rec1 EXCEPT !.pc = "mit_block",
                                                        !.dur = 0]]
                /\ UNCHANGED issued
        /\ traffic' = Counted(r)
        /\ UNCHANGED <<clock, kvClient, detVars, kvUp, zset, zexp, allowlist, blocklist,
                       blockKey, started, rlHist, rlVars, blkVars, chRes, pxVars, ruleVars>>

\* ip_blocker.block() of the rule escalation or of the mitigation, then 403
BlockAndForbid(r) ==
    LET rec == req[r]
    IN  /\ NoneDone
        /\ rec.pc \in {"rule_block", "mit_block"}
        /\ rec.op = "req"
        /\ IF kvClient /\ ~kvUp
           THEN /\ Respond(r, [rec EXCEPT !.kvdown = TRUE], 500, "error")
                /\ UNCHANGED <<blockKey, blocklist>>
           ELSE /\ BlockEffect(rec.ip, rec.dur)
                /\ Respond(r, [rec EXCEPT !.kvdown = @ \/ ~kvClient], 403,
                           IF rec.pc = "rule_block" THEN "rule" ELSE "mitigation")
        /\ traffic' = Counted(r)
        /\ UNCHANGED <<clock, kvClient, noBan, kvUp, zset, zexp, allowlist, started, rlHist, rlVars, blkVars, chVars, pxVars, ruleVars>>
        /\ ban' = IF req[r].pc = "mit_block" /\ KvOk /\ ~OnAllowlist(req[r].ip)
                  THEN BanBlocked(ban, req[r].ip) ELSE ban

\* client.request() to the upstream: its response, or 502 on RequestError
Forward(r, ok) ==
    LET rec == req[r]
    IN  /\ NoneDone
        /\ rec.pc = "forward"
        /\ rec.op = "req"
        /\ Respond(r, [rec EXCEPT !.fwd = TRUE], IF ok THEN 200 ELSE 502, "upstream")
        /\ traffic' = Counted(r)
        /\ UNCHANGED <<clock, kvClient, detVars, kvUp, zset, zexp, allowlist, blocklist,
                       blockKey, started, rlHist, rlVars, blkVars, chVars, pxVars, ruleVars>>

\* the response is sent
Close(r) ==
    /\ req[r].pc = "done"
    /\ req' = [req EXCEPT ![r] = Idle]
    /\ UNCHANGED <<clock, kvClient, detVars, kvUp, zset, zexp, allowlist, blocklist,
                   blockKey, started, rlHist, rlVars, blkVars, chVars, pxVars, ruleVars, traffic>>

----------------------------------------------------------------------------
(* BehaviorAnalyzer: per-IP sessions and the bot score.
   Scores are exact fractions [num, den]: the signals are multiples of 0.1,
   the weights multiples of 0.05 and the path diversity is unique / n.  The
   comparisons of the coefficient of variation are made on the squares, so
   they are those of real arithmetic. *)

\* time.time() at clock 0: the wall clock is never 0, which record() relies
\* on when it tests first_seen == 0 and last_seen > 0
Epoch == 1000
Now == Epoch + clock

BehIPs == {"10.0.0.1", "10.0.0.2", "10.0.0.3"}

\* the request as record_and_score() sees it; referer and cookie: truthy
Profile(path, ua, lang, referer, cookie, hash) ==
    [path |-> path, method |-> "GET", user_agent |-> ua,
     accept_language |-> lang, referer |-> referer, cookie |-> cookie,
     header_order_hash |-> hash]
Profiles ==
    { Profile("/", "Mozilla", "en", TRUE, TRUE, "h1"),
      Profile("/login", "curl", "", FALSE, FALSE, "h2"),
      Profile("/a", "Mozilla", "fr", FALSE, FALSE, "h3"),
      Profile("/b", "", "de", FALSE, TRUE, "h1") }

\* IPSession()
NewSession ==
    [first_seen |-> 0, last_seen |-> 0, request_count |-> 0,
     inter_arrival_times |-> <<>>, paths_visited |-> <<>>,
     methods_used |-> {}, has_referer |-> FALSE, has_cookies |-> FALSE,
     user_agents |-> {}, accept_languages |-> {}, header_order_hashes |-> {}]
\* _sessions.get(ip) of an ip that is not a key
NoSession == [NewSession EXCEPT !.request_count = -1]

\* deque(maxlen=...).append
DequeAppendUnbounded(q, x, maxlen) == Append(q, x)
DequeAppend(q, x, maxlen) ==
    IF Len(q) >= maxlen THEN Append(Tail(q), x) ELSE Append(q, x)

\* IPSession.record
Record(s, now, p) ==
    [first_seen |-> IF s.first_seen = 0 THEN now ELSE s.first_seen,
     last_seen |-> now,
     request_count |-> s.request_count + 1,
     inter_arrival_times |->
        IF s.last_seen > 0
        THEN DequeAppend(s.inter_arrival_times, now - s.last_seen, IAT_MAXLEN)
        ELSE s.inter_arrival_times,
     paths_visited |-> DequeAppend(s.paths_visited, p.path, PATHS_MAXLEN),
     methods_used |-> s.methods_used \cup {p.method},
     has_referer |-> s.has_referer \/ p.referer,
     has_cookies |-> s.has_cookies \/ p.cookie,
     user_agents |-> IF p.user_agent # "" THEN s.user_agents \cup {p.user_agent}
                     ELSE s.user_agents,
     accept_languages |->
        IF p.accept_language # "" THEN s.accept_languages \cup {p.accept_language}
        ELSE s.accept_languages,
     header_order_hashes |-> s.header_order_hashes \cup {p.header_order_hash}]

RECURSIVE SumTo(_, _)
SumTo(q, i) == IF i = 0 THEN 0 ELSE q[i] + SumTo(q, i - 1)
RECURSIVE SumSqTo(_, _)
SumSqTo(q, i) == IF i = 0 THEN 0 ELSE q[i] * q[i] + SumSqTo(q, i - 1)

\* _timing_regularity, in tenths.  With n intervals of sum S and sum of
\* squares Q: mean = S / n, variance = (n Q - S^2) / n^2 and
\* cv = sqrt(n Q - S^2) / S
TimingRegularity(s) ==
    LET q == s.inter_arrival_times
        n == Len(q)
        S == SumTo(q, n)
        dev == n * SumSqTo(q, n) - S * S
    IN  IF n < 5 THEN 0
        ELSE IF S = 0 THEN 10
        ELSE IF S < 0 \/ 400 * dev < S * S THEN 10
        ELSE IF 400 * dev < 9 * S * S THEN 7
        ELSE IF 100 * dev < 9 * S * S THEN 3
        ELSE 0

\* len(set(paths)) and len(paths) of _path_diversity
UniquePaths(s) ==
    Cardinality({s.paths_visited[i] : i \in 1..Len(s.paths_visited)})

\* _header_consistency, in tenths
HeaderConsistency(s) ==
    Min(10, (IF Cardinality(s.user_agents) > 1 THEN 5 ELSE 0)
          + (IF Cardinality(s.accept_languages) > 2 THEN 3 ELSE 0)
          + (IF Cardinality(s.header_order_hashes) > 2 THEN 2 ELSE 0))

\* _rate_score, in tenths: rps = request_count / duration
RateScore(s) ==
    LET duration == s.last_seen - s.first_seen
    IN  IF duration < 1 THEN 0
        ELSE IF s.request_count > 20 * duration THEN 10
        ELSE IF s.request_count > 10 * duration THEN 7
        ELSE IF s.request_count > 5 * duration THEN 3
        ELSE 0

\* _browser_indicators, in tenths
BrowserIndicators(s) ==
    Min(10, (IF ~s.has_referer /\ s.request_count > 5 THEN 4 ELSE 0)
          + (IF ~s.has_cookies /\ s.request_count > 3 THEN 3 ELSE 0)
          + (IF s.accept_languages = {} THEN 3 ELSE 0))

\* if s.request_count < 3: return 0.0
TooFewToJudgeLt2(s) == s.request_count < 2
TooFewToJudge(s) == s.request_count < 3

\* min(1.0, max(0.0, composite))
Clamp(num, den) == IF num < 0 THEN 0 ELSE IF num > den THEN den ELSE num

\* _compute_score: weights 0.30, 0.15, 0.15, 0.20, 0.20, the second on
\* 1 - unique / n; in thousandths over n
ComputeScore(s) ==
    IF TooFewToJudge(s) THEN [num |-> 0, den |-> 1]
    ELSE LET n == Len(s.paths_visited)
             d == IF n = 0 THEN 1 ELSE n
             u == UniquePaths(s)
             composite == d * (30 * TimingRegularity(s)
                               + 15 * HeaderConsistency(s)
                               + 20 * RateScore(s)
                               + 20 * BrowserIndicators(s))
                          + 150 * (d - u)
         IN  [num |-> Clamp(composite, 1000 * d), den |-> 1000 * d]

\* _maybe_cleanup: the sessions and _last_cleanup it leaves
CleanupDue(now) == now - lastCleanup >= CLEANUP_EVERY
SessionExpired(s, now) == s.last_seen < now - SESSION_TTL
AfterCleanup(now) ==
    IF CleanupDue(now)
    THEN [ip \in BehIPs |->
            IF sessions[ip] # NoSession /\ SessionExpired(sessions[ip], now)
            THEN NoSession ELSE sessions[ip]]
    ELSE sessions

Tracked(ss) == {ip \in BehIPs : ss[ip] # NoSession}

\* MAX_TRACKED = 50_000 in the code: scaled to the three clients of the model
MAX_TRACKED == 2

\* min(self._sessions, key=last_seen) deleted if at capacity; among sessions
\* of equal last_seen min() takes the first of the dict, any of them here
EvictNewest(ss) ==
    IF Cardinality(Tracked(ss)) >= MAX_TRACKED
    THEN LET newest_ip == CHOOSE k \in Tracked(ss) :
                            \A j \in Tracked(ss) : ss[k].last_seen >= ss[j].last_seen
         IN  [ss EXCEPT ![newest_ip] = NoSession]
    ELSE ss
EvictOldest(ss) ==
    IF Cardinality(Tracked(ss)) >= MAX_TRACKED
    THEN LET oldest_ip == CHOOSE k \in Tracked(ss) :
                            \A j \in Tracked(ss) : ss[k].last_seen <= ss[j].last_seen
         IN  [ss EXCEPT ![oldest_ip] = NoSession]
    ELSE ss

\* get_session
GetSession(ip) == sessions[ip]

NoBehResult == [ip |-> "none", profile |-> Profile("", "", "", FALSE, FALSE, ""),
                now |-> 0, count |-> 0, score |-> [num |-> 0, den |-> 1]]

\* record_and_score: what it leaves in the analyzer and what it returns
RecordAndScoreEffect(ip, p) ==
    LET now == Now
        cleaned == AfterCleanup(now)
        known == cleaned[ip] # NoSession
        ss == IF known THEN cleaned ELSE EvictOldest(cleaned)
        s1 == Record(IF known THEN cleaned[ip] ELSE NewSession, now, p)
    IN  /\ lastCleanup' = IF CleanupDue(now) THEN now ELSE lastCleanup
        /\ sessions' = [ss EXCEPT ![ip] = s1]
        /\ behCalls' = [behCalls EXCEPT ![ip] = IF known THEN @ + 1 ELSE 1]
        /\ recorded' = recorded \cup {ip}
        /\ behRes' = [ip |-> ip, profile |-> p, now |-> now,
                      count |-> s1.request_count, score |-> ComputeScore(s1)]

\* record_and_score
RecordAndScore(ip, p) ==
        /\ \A r \in Reqs : req[r].pc = "idle"
        /\ started' = started + 1
        /\ RecordAndScoreEffect(ip, p)
        /\ UNCHANGED <<clock, kvClient, kvUp, zset, zexp, allowlist, blocklist,
                       blockKey, req, rlHist, rlVars, blkVars, chVars, pxVars,
                       ruleVars, traffic, scVars, mlVars, clsVars, matchVars, blVars, banVars>>

----------------------------------------------------------------------------
(* AnomalyScorer: the heuristic score, as an exact fraction [num, den] *)

\* str.lower() on the ASCII letters
Upper == <<"A", "B", "C", "D", "E", "F", "G", "H", "I", "J", "K", "L", "M",
           "N", "O", "P", "Q", "R", "S", "T", "U", "V", "W", "X", "Y", "Z">>
LowerLetters == <<"a", "b", "c", "d", "e", "f", "g", "h", "i", "j", "k", "l", "m",
                  "n", "o", "p", "q", "r", "s", "t", "u", "v", "w", "x", "y", "z">>
LowerChar(c) ==
    IF \E i \in 1..26 : Upper[i] = c
    THEN LowerLetters[CHOOSE i \in 1..26 : Upper[i] = c]
    ELSE c
RECURSIVE LowerFrom(_, _)
LowerFrom(s, i) ==
    IF i > Len(s) THEN "" ELSE LowerChar(SubSeq(s, i, i)) \o LowerFrom(s, i + 1)
Lower(s) == LowerFrom(s, 1)

\* sub in s
Contains(s, sub) ==
    \E i \in 1..(Len(s) - Len(sub) + 1) : SubSeq(s, i, i + Len(sub) - 1) = sub

RECURSIVE Repeat(_, _)
Repeat(s, n) ==
    IF n = 0 THEN ""
    ELSE IF n % 2 = 0 THEN LET half == Repeat(s, n \div 2) IN half \o half
    ELSE s \o Repeat(s, n - 1)

Frac(num, den) == [num |-> num, den |-> den]
Abs(x) == IF x < 0 THEN -x ELSE x

\* _z_to_score: z = abs(value - mean) / std if std else 0.0; 0 below 1.5,
\* the ramp (z - 1.5) / 1.5 below 3.0, else 1
ZToScore(value, mean, std) ==
    LET d == Abs(value - mean)
    IN  IF std = 0 THEN Frac(0, 1)
        ELSE IF 2 * d < 3 * std THEN Frac(0, 1)
        ELSE IF d < 3 * std THEN Frac(2 * d - 3 * std, 3 * std)
        ELSE Frac(1, 1)

Suspicious == {"python-requests", "curl", "wget", "go-http-client",
               "httpclient", "java/", "libwww", "okhttp"}

\* _score_user_agent, in tenths
ScoreUserAgent(ua) ==
    IF ua = "" THEN 9
    ELSE IF \E s \in Suspicious : Contains(Lower(ua), s) THEN 5
    ELSE 0

\* _score_path, in tenths
ScorePath(path) ==
    IF Len(path) > 512 THEN 8
    ELSE IF Cardinality({SubSeq(path, i, i) : i \in 1..Len(path)}) > 40 THEN 5
    ELSE 0

\* min(1.0, max(0.0, x)) of a signal given in tenths
ClampTenths(x) == IF x < 0 THEN 0 ELSE IF x > 10 THEN 10 ELSE x

\* the weighted composite of the six signals, clamped: WEIGHTS are 0.15,
\* 0.10, 0.20, 0.10, 0.20 and 0.25
Composite(features, baseline, rate_ratio, behavior_score) ==
    LET hc == ZToScore(features.header_count, baseline.mean_header_count,
                       baseline.std_header_count)
        cl == ZToScore(features.content_length, baseline.mean_content_length,
                       baseline.std_content_length)
        rest == 20 * ScoreUserAgent(features.user_agent)
                + 10 * ScorePath(features.path)
                + 20 * ClampTenths(rate_ratio)
                + 25 * ClampTenths(behavior_score)
        den == 1000 * hc.den * cl.den
        num == 150 * hc.num * cl.den + 100 * cl.num * hc.den
               + rest * hc.den * cl.den
    IN  Frac(Clamp(num, den), den)

\* if not baseline.is_ready
LearningModeNever(baseline) == FALSE
LearningMode(baseline) == ~baseline.is_ready

\* AnomalyScorer.score
HeuristicScore(features, baseline, rate_ratio, behavior_score) ==
    IF LearningMode(baseline) THEN Frac(0, 1)
    ELSE Composite(features, baseline, rate_ratio, behavior_score)

LongPath == "/" \o Repeat("a", 512)
ManyCharsPath == "/abcdefghijklmnopqrstuvwxyzABCDEFGHIJKLMNO"
Features ==
    [header_count : {10, 14, 40}, content_length : {0, 5000},
     user_agent : {"", "Mozilla/5.0", "Python-Requests/2.31"},
     path : {"/", LongPath, ManyCharsPath}]
Baselines ==
    [is_ready : BOOLEAN, mean_header_count : {10}, std_header_count : {0, 2},
     mean_content_length : {100}, std_content_length : {1, 2000}]
Tenths == {-5, 0, 5, 20}

NoScore == [called |-> FALSE, features |-> [header_count |-> 0,
            content_length |-> 0, user_agent |-> "", path |-> ""],
            baseline |-> [is_ready |-> FALSE, mean_header_count |-> 0,
                          std_header_count |-> 0, mean_content_length |-> 0,
                          std_content_length |-> 0],
            rate_ratio |-> 0, behavior_score |-> 0, score |-> Frac(0, 1)]

\* scorer.score(features, baseline, rate_ratio, behavior_score), called once
\* in a behaviour: the function reads and writes no state
ScoreCall(features, baseline, rate_ratio, behavior_score) ==
    /\ ~scoreRes.called
    /\ scoreRes' = [called |-> TRUE, features |-> features,
                    baseline |-> baseline, rate_ratio |-> rate_ratio,
                    behavior_score |-> behavior_score,
                    score |-> HeuristicScore(features, baseline,
                                             rate_ratio, behavior_score)]
    /\ UNCHANGED <<clock, kvClient, kvUp, zset, zexp, allowlist, blocklist,
                   blockKey, req, started, rlHist, rlVars, blkVars, chVars,
                   pxVars, ruleVars, traffic, behVars, mlVars, clsVars, matchVars, blVars, banVars,
                   eng>>

----------------------------------------------------------------------------
(* BaselineModel: the observation window.  An observation is written as its
   timestamp; the statistics update_model computes are left out. *)

DEFAULT_WINDOW_SEC == 86400
MIN_OBSERVATIONS == 100
MaxObservations == 4
MaxBurstObs == 150
ObsStep == 50
StepBack == 50000

\* BaselineModel._evict_old: pop from the left while the head is older than
\* the cutoff
RECURSIVE EvictOld(_, _)
EvictOld(obs, now) ==
    IF obs # <<>> /\ Head(obs) < now - DEFAULT_WINDOW_SEC
    THEN EvictOld(Tail(obs), now)
    ELSE obs

\* baseline.record_observation(features).  features["timestamp"] is a
\* reading of time.time() its caller took: the wall clock now, or a reading
\* StepBack seconds lower (a wall clock that was set back in between, a
\* caller that hands in an older reading)
RecordObservation(ts) ==
    /\ Len(blObs) < MaxObservations
    /\ ts >= 0
    /\ \A r \in Reqs : req[r].pc = "idle"
    /\ blObs' = EvictOld(Append(blObs, ts), Now)
    /\ blCallAt' = Now
    /\ UNCHANGED <<clock, kvClient, kvUp, zset, zexp, allowlist, blocklist,
                   blockKey, req, started, rlHist, rlVars, blkVars, chVars,
                   pxVars, ruleVars, traffic, behVars, scVars, mlVars, clsVars,
                   matchVars, blReady, blStats, banVars>>

\* n record_observation calls at one reading of the clock
RecordBurst(n) ==
    /\ Len(blObs) + n <= MaxBurstObs
    /\ \A r \in Reqs : req[r].pc = "idle"
    /\ blObs' = EvictOld(blObs \o [i \in 1..n |-> Now], Now)
    /\ blCallAt' = Now
    /\ UNCHANGED <<clock, kvClient, kvUp, zset, zexp, allowlist, blocklist,
                   blockKey, req, started, rlHist, rlVars, blkVars, chVars,
                   pxVars, ruleVars, traffic, behVars, scVars, mlVars, clsVars,
                   matchVars, blReady, blStats, banVars>>

\* the statistics: the means and deviations of __init__, or those of a
\* window of n observations spanning span seconds
NoStats == [n |-> 0, span |-> 0]
StatsOf(obs) == [n |-> Len(obs), span |-> obs[Len(obs)] - obs[1]]

\* update_model: the window is pruned, and the statistics are computed
\* once MIN_OBSERVATIONS observations are left
UpdateModelEffectFollowsCount ==
    /\ blObs' = EvictOld(blObs, Now)
    /\ blReady' = (Len(blObs') >= MIN_OBSERVATIONS)
    /\ blStats' = IF Len(blObs') < MIN_OBSERVATIONS THEN blStats
                  ELSE StatsOf(blObs')
    /\ blCallAt' = Now
UpdateModelEffect ==
    /\ blObs' = EvictOld(blObs, Now)
    /\ blReady' = IF Len(blObs') < MIN_OBSERVATIONS THEN blReady ELSE TRUE
    /\ blStats' = IF Len(blObs') < MIN_OBSERVATIONS THEN blStats
                  ELSE StatsOf(blObs')
    /\ blCallAt' = Now

\* baseline.update_model()
UpdateModel ==
    /\ \A r \in Reqs : req[r].pc = "idle"
    /\ blCallAt # Now
    /\ UpdateModelEffect
    /\ UNCHANGED <<clock, kvClient, kvUp, zset, zexp, allowlist, blocklist,
                   blockKey, req, started, rlHist, rlVars, blkVars, chVars,
                   pxVars, ruleVars, traffic, behVars, scVars, mlVars, clsVars,
                   matchVars, banVars>>

----------------------------------------------------------------------------
(* MLAnomalyModel: the training buffer, maybe_train() and the predictions.
   maybe_train() is called by the learn loop of the detection engine and by
   POST /api/ml/train; it is cut where it awaits the lock and where it awaits
   the worker thread.  What IsolationForest computes is an input. *)

Callers == {"loop", "manual"}

\* deque(maxlen=self.config.max_samples * 4)
BufferMaxlen == MAX_SAMPLES * 4

\* is_ready
IsReady == mlTrained /\ mlModel # 0

\* what a training may replace
Resident == <<mlTrained, mlModel, mlScaler, mlTrainCount, mlLastTrain>>

NoCall == [pc |-> "idle", was_trained |-> FALSE, buffer |-> 0, elapsed |-> 0,
           overlapped |-> FALSE, before |-> <<>>]
NoTrainResult == [caller |-> "none", out |-> "none", was_trained |-> FALSE,
                  buffer |-> 0, elapsed |-> 0, ready_after |-> FALSE,
                  overlapped |-> FALSE, unchanged |-> TRUE]
NoPrediction == [fn |-> "none", ready |-> FALSE, value |-> 0, scaler |-> 0,
                 model |-> 0]
NoRead == [pc |-> "idle", fn |-> "none", scaler |-> 0]

\* mlRes and mlScoreRes hold what a call returns until the event loop takes
\* its next step

\* score() and predict_label() are plain functions called on the event loop:
\* while one runs no coroutine does, only the worker thread
LoopThreadFree == mlRead.pc = "idle"

\* the worker thread is between the first and the last assignment of
\* _train_sync
Installing == \E c \in Callers :
                 mlCall[c].pc \in {"scaler", "trained", "time", "count"}

\* MLAnomalyModel.__init__ and _load_model: found, a persisted model is
\* read; _last_train_time stays 0.0
Construct(found) ==
    /\ ~mlUp
    /\ mlUp' = TRUE
    /\ IF found
       THEN /\ mlModel' = 1
            /\ mlScaler' = 1
            /\ mlTrainCount' = 1
            /\ mlTrained' = TRUE
       ELSE UNCHANGED <<mlModel, mlScaler, mlTrainCount, mlTrained>>
    /\ UNCHANGED <<notMl, clock, started, blVars, mlLastTrain, mlBuffer, mlLock,
                   mlCall, mlRes, mlScoreRes, mlRead, mlRaised>>

\* record_sample, once for each of SampleStep requests
RecordSample ==
    /\ mlUp
    /\ LoopThreadFree
    /\ mlBuffer + SampleStep <= MaxSamples
    /\ mlBuffer' = Min(mlBuffer + SampleStep, BufferMaxlen)
    /\ mlRes' = NoTrainResult
    /\ mlScoreRes' = NoPrediction
    /\ UNCHANGED <<notMl, clock, started, blVars, mlUp, mlTrained, mlModel,
                   mlScaler, mlLastTrain, mlTrainCount, mlLock, mlCall, mlRead, mlRaised>>

\* normalized = 1.0 - (raw_score + 0.5), clamped; in tenths
Normalized(raw) == ClampTenths(10 - (raw + 5))

\* score() / predict_label(): `if not self.is_ready: return 0.0` (return 1)
PredictBegin(fn) ==
    /\ mlUp
    /\ LoopThreadFree
    /\ IF IsReady
       THEN /\ mlRead' = [pc |-> "scale", fn |-> fn, scaler |-> 0]
            /\ mlScoreRes' = NoPrediction
       ELSE /\ mlScoreRes' = [fn |-> fn, ready |-> FALSE,
                              value |-> IF fn = "score" THEN 0 ELSE 1,
                              scaler |-> 0, model |-> 0]
            /\ UNCHANGED mlRead
    /\ mlRes' = NoTrainResult
    /\ UNCHANGED <<notMl, clock, started, blVars, mlUp, mlTrained, mlModel,
                   mlScaler, mlLastTrain, mlTrainCount, mlBuffer, mlLock,
                   mlCall, mlRaised>>

\* X_scaled = self._scaler.transform(X): the scaler the attribute holds now
PredictScale ==
    /\ mlRead.pc = "scale"
    /\ mlRead' = [mlRead EXCEPT !.pc = "model", !.scaler = mlScaler]
    /\ UNCHANGED <<notMl, clock, started, blVars, mlUp, mlTrained, mlModel,
                   mlScaler, mlLastTrain, mlTrainCount, mlBuffer, mlLock,
                   mlCall, mlRes, mlScoreRes, mlRaised>>

\* score(): self._model.decision_function(X_scaled), the model the
\* attribute holds now; raw, what it returns, in tenths
MlScore(raw) ==
    /\ mlRead.pc = "model"
    /\ mlRead.fn = "score"
    /\ mlScoreRes' = [fn |-> "score", ready |-> TRUE, value |-> Normalized(raw),
                      scaler |-> mlRead.scaler, model |-> mlModel]
    /\ mlRead' = NoRead
    /\ UNCHANGED <<notMl, clock, started, blVars, mlUp, mlTrained, mlModel,
                   mlScaler, mlLastTrain, mlTrainCount, mlBuffer, mlLock,
                   mlCall, mlRes, mlRaised>>

\* predict_label(): self._model.predict(X_scaled); label, what it returns
MlPredictLabel(label) ==
    /\ mlRead.pc = "model"
    /\ mlRead.fn = "predict_label"
    /\ mlScoreRes' = [fn |-> "predict_label", ready |-> TRUE, value |-> label,
                      scaler |-> mlRead.scaler, model |-> mlModel]
    /\ mlRead' = NoRead
    /\ UNCHANGED <<notMl, clock, started, blVars, mlUp, mlTrained, mlModel,
                   mlScaler, mlLastTrain, mlTrainCount, mlBuffer, mlLock,
                   mlCall, mlRes, mlRaised>>

\* the conditions of maybe_train() before the lock
FirstTrainDue == mlBuffer >= MinTrainSamples
RetrainDue(now) ==
    /\ now - mlLastTrain >= RETRAIN_INTERVAL
    /\ mlBuffer >= RETRAIN_MIN_SAMPLES
TrainDue(now) == IF ~mlTrained THEN FirstTrainDue ELSE RetrainDue(now)

\* calls in flight other than c's
OthersInFlight(c) == \E o \in Callers \ {c} : mlCall[o].pc # "idle"

\* maybe_train() up to the lock.  The learn loop calls
\* baseline.update_model() and then maybe_train(); ml_trigger_train answers
\* 400 and does not call it while the buffer is below min_train_samples
MaybeTrainCheck(c) ==
    /\ mlUp
    /\ LoopThreadFree
    /\ mlCall[c].pc = "idle"
    /\ started < MaxMlCalls
    /\ c = "manual" => mlBuffer >= MinTrainSamples
    /\ started' = started + 1
    /\ IF c = "loop" THEN UpdateModelEffect ELSE UNCHANGED blVars
    /\ IF TrainDue(Now)
       THEN /\ mlCall' = [o \in Callers |->
                            IF o = c
                            THEN [NoCall EXCEPT !.pc = "lock",
                                                !.overlapped = OthersInFlight(c)]
                            ELSE IF mlCall[o].pc # "idle"
                            THEN [mlCall[o] EXCEPT !.overlapped = TRUE]
                            ELSE mlCall[o]]
            /\ mlRes' = NoTrainResult
       ELSE /\ mlRes' = [caller |-> c, out |-> "False",
                         was_trained |-> mlTrained, buffer |-> mlBuffer,
                         elapsed |-> Now - mlLastTrain, ready_after |-> IsReady,
                         overlapped |-> OthersInFlight(c), unchanged |-> TRUE]
            /\ UNCHANGED mlCall
    /\ mlScoreRes' = NoPrediction
    /\ UNCHANGED <<notMl, clock, mlUp, mlTrained, mlModel, mlScaler,
                   mlLastTrain, mlTrainCount, mlBuffer, mlLock,
                   mlRead, mlRaised>>

\* asyncio.Lock: acquire() returns once no caller holds the lock
LockFreeAlways == TRUE
LockFree == mlLock = "none"

\* async with self._lock, and _train_sync handed to the worker thread, which
\* snapshots the buffer
TrainBegin(c) ==
    /\ mlCall[c].pc = "lock"
    /\ LoopThreadFree
    /\ LockFree
    /\ mlLock' = c
    /\ mlCall' = [mlCall EXCEPT ![c] = [@ EXCEPT !.pc = "train",
                                               !.was_trained = mlTrained,
                                               !.buffer = mlBuffer,
                                               !.elapsed = Now - mlLastTrain,
                                               !.before = Resident]]
    /\ mlRes' = NoTrainResult
    /\ mlScoreRes' = NoPrediction
    /\ UNCHANGED <<notMl, clock, started, blVars, mlUp, mlTrained, mlModel,
                   mlScaler, mlLastTrain, mlTrainCount, mlBuffer, mlRead, mlRaised>>

\* _train_sync on the worker thread up to model.fit(): it returns on an
\* empty snapshot, and fit_transform / fit return (ok) or raise
TrainFit(c, ok) ==
    /\ mlCall[c].pc = "train"
    /\ ~ok => Cardinality(mlRaised) < MaxTrainErrors
    /\ mlCall' = [mlCall EXCEPT ![c].pc = IF mlCall[c].buffer = 0 THEN "ret"
                                          ELSE IF ok THEN "model" ELSE "raise"]
    /\ mlRaised' = IF mlCall[c].buffer # 0 /\ ~ok THEN mlRaised \cup {c}
                    ELSE mlRaised
    /\ UNCHANGED <<notMl, clock, started, blVars, mlUp, mlTrained, mlModel,
                   mlScaler, mlLastTrain, mlTrainCount, mlBuffer, mlLock, mlRes,
                   mlScoreRes, mlRead>>

\* self._model = model
InstallModel(c) ==
    /\ mlCall[c].pc = "model"
    /\ mlModel' = mlTrainCount + 1
    /\ mlCall' = [mlCall EXCEPT ![c].pc = "scaler"]
    /\ UNCHANGED <<notMl, clock, started, blVars, mlUp, mlTrained, mlScaler,
                   mlLastTrain, mlTrainCount, mlBuffer, mlLock, mlRes,
                   mlScoreRes, mlRead, mlRaised>>

\* self._scaler = scaler
InstallScaler(c) ==
    /\ mlCall[c].pc = "scaler"
    /\ mlScaler' = mlTrainCount + 1
    /\ mlCall' = [mlCall EXCEPT ![c].pc = "trained"]
    /\ UNCHANGED <<notMl, clock, started, blVars, mlUp, mlTrained, mlModel,
                   mlLastTrain, mlTrainCount, mlBuffer, mlLock, mlRes,
                   mlScoreRes, mlRead, mlRaised>>

\* self._is_trained = True
SetTrained(c) ==
    /\ mlCall[c].pc = "trained"
    /\ mlTrained' = TRUE
    /\ mlCall' = [mlCall EXCEPT ![c].pc = "time"]
    /\ UNCHANGED <<notMl, clock, started, blVars, mlUp, mlModel, mlScaler,
                   mlLastTrain, mlTrainCount, mlBuffer, mlLock, mlRes,
                   mlScoreRes, mlRead, mlRaised>>

\* self._last_train_time = time.time()
SetLastTrain(c) ==
    /\ mlCall[c].pc = "time"
    /\ mlLastTrain' = Now
    /\ mlCall' = [mlCall EXCEPT ![c].pc = "count"]
    /\ UNCHANGED <<notMl, clock, started, blVars, mlUp, mlTrained, mlModel,
                   mlScaler, mlTrainCount, mlBuffer, mlLock, mlRes, mlScoreRes,
                   mlRead, mlRaised>>

\* self._train_count += 1; _save_model() catches what it raises
CountTrain(c) ==
    /\ mlCall[c].pc = "count"
    /\ mlTrainCount' = mlTrainCount + 1
    /\ mlCall' = [mlCall EXCEPT ![c].pc = "ret"]
    /\ UNCHANGED <<notMl, clock, started, blVars, mlUp, mlTrained, mlModel,
                   mlScaler, mlLastTrain, mlBuffer, mlLock, mlRes, mlScoreRes,
                   mlRead, mlRaised>>

\* _train_sync has returned: the lock is released and maybe_train() returns
\* True
TrainEnd(c) ==
    /\ mlCall[c].pc = "ret"
    /\ LoopThreadFree
    /\ mlLock' = "none"
    /\ mlCall' = [mlCall EXCEPT ![c] = NoCall]
    /\ mlRes' = [caller |-> c, out |-> "True",
                 was_trained |-> mlCall[c].was_trained,
                 buffer |-> mlCall[c].buffer, elapsed |-> mlCall[c].elapsed,
                 ready_after |-> IsReady,
                 overlapped |-> mlCall[c].overlapped,
                 unchanged |-> Resident = mlCall[c].before]
    /\ mlScoreRes' = NoPrediction
    /\ UNCHANGED <<notMl, clock, started, blVars, mlUp, mlTrained, mlModel,
                   mlScaler, mlLastTrain, mlTrainCount, mlBuffer,
                   mlRead, mlRaised>>

\* _learn_loop: `except Exception: logger.exception(...)` inside the while
\* loop
LoopCatchesNothing == FALSE
LoopCatches == TRUE

\* _train_sync has raised: the exception leaves `async with self._lock`,
\* which releases the lock, and maybe_train(); the learn loop logs it and
\* goes on to its next cycle, ml_trigger_train lets it through to the
\* client of POST /api/ml/train
TrainRaise(c) ==
    /\ mlCall[c].pc = "raise"
    /\ LoopThreadFree
    /\ mlLock' = "none"
    /\ mlCall' = [mlCall EXCEPT ![c] =
                    IF c = "loop" /\ ~LoopCatches
                    THEN [NoCall EXCEPT !.pc = "dead"] ELSE NoCall]
    /\ mlRes' = [caller |-> c, out |-> "raised",
                 was_trained |-> mlCall[c].was_trained,
                 buffer |-> mlCall[c].buffer, elapsed |-> mlCall[c].elapsed,
                 ready_after |-> IsReady,
                 overlapped |-> mlCall[c].overlapped,
                 unchanged |-> Resident = mlCall[c].before]
    /\ mlScoreRes' = NoPrediction
    /\ UNCHANGED <<notMl, clock, started, blVars, mlUp, mlTrained, mlModel,
                   mlScaler, mlLastTrain, mlTrainCount, mlBuffer,
                   mlRead, mlRaised>>

----------------------------------------------------------------------------
(* AttackClassifier.  rate_count / rate_limit is compared on integers and
   behavior_score is in tenths. *)

\* rate_ratio > num / den, with rate_ratio = rate_count / rate_limit if
\* rate_limit > 0 else 0.0
RateAbove(in, num, den) ==
    IF in.rate_limit > 0 THEN den * in.rate_count > num * in.rate_limit
    ELSE FALSE

LoginPaths == {"/login", "/auth", "/api/login", "/api/auth", "/signin",
               "/api/signin"}

\* the conditions of classify(), in the order of the code
FloodWithBot(in) ==
    RateAbove(in, 6, 10) /\ (in.user_agent = "" \/ in.behavior_score > 5)
FloodAlone(in) == RateAbove(in, 85, 100)
SlowlorisAnyLength(in) ==
    in.method = "POST" /\ in.behavior_score > 3
Slowloris(in) ==
    in.content_length = 0 /\ in.method = "POST" /\ in.behavior_score > 3
CredentialStuffing(in) ==
    Lower(in.path) \in LoginPaths /\ in.method = "POST" /\ RateAbove(in, 3, 10)
ApiAbuse(in) ==
    /\ Contains(in.path, "/api/")
    /\ in.method \in {"POST", "PUT", "DELETE"}
    /\ (RateAbove(in, 5, 10) \/ in.behavior_score > 6)
Scraping(in) ==
    in.method = "GET" /\ in.behavior_score > 6 /\ RateAbove(in, 4, 10)

\* AttackClassifier.classify
ClassifySlowlorisFirst(in) ==
    IF Slowloris(in) THEN "slowloris"
    ELSE IF FloodWithBot(in) THEN "http_flood"
    ELSE IF FloodAlone(in) THEN "http_flood"
    ELSE IF CredentialStuffing(in) THEN "credential_stuffing"
    ELSE IF ApiAbuse(in) THEN "api_abuse"
    ELSE IF Scraping(in) THEN "scraping"
    ELSE "None"
Classify(in) ==
    IF FloodWithBot(in) THEN "http_flood"
    ELSE IF FloodAlone(in) THEN "http_flood"
    ELSE IF Slowloris(in) THEN "slowloris"
    ELSE IF CredentialStuffing(in) THEN "credential_stuffing"
    ELSE IF ApiAbuse(in) THEN "api_abuse"
    ELSE IF Scraping(in) THEN "scraping"
    ELSE "None"

ClassifierInputs ==
    [method : {"GET", "POST", "PUT"},
     path : {"/", "/Login", "/api/login", "/api/users", "/products"},
     user_agent : {"", "Mozilla/5.0"},
     content_length : {0, 100, 10000},
     rate_count : {0, 35, 45, 55, 65, 90},
     rate_limit : {100, 0, -5},
     behavior_score : {0, 4, 6, 7}]

NoClass == [called |-> FALSE,
            in |-> [method |-> "", path |-> "", user_agent |-> "",
                    content_length |-> 0, rate_count |-> 0, rate_limit |-> 0,
                    behavior_score |-> 0],
            label |-> "None"]

\* classifier.classify(features, rate_count, rate_limit, behavior_score),
\* called once in a behaviour: the function reads and writes no state
ClassifyCall(in) ==
    /\ ~clsRes.called
    /\ clsRes' = [called |-> TRUE, in |-> in, label |-> Classify(in)]
    /\ UNCHANGED <<clock, kvClient, kvUp, zset, zexp, allowlist, blocklist,
                   blockKey, req, started, rlHist, rlVars, blkVars, chVars,
                   pxVars, ruleVars, traffic, behVars, scVars, mlVars, matchVars, blVars,
                   banVars>>

----------------------------------------------------------------------------
(* RulesEngine.match_request on rules with a match.path that may end in *,
   a match.method and an enabled flag.  A match.path or match.method the
   rule file leaves out is None, which the code tests like the empty string
   and which is written "" here. *)

\* str.upper() on the ASCII letters
UpperChar(c) ==
    IF \E i \in 1..26 : LowerLetters[i] = c
    THEN Upper[CHOOSE i \in 1..26 : LowerLetters[i] = c]
    ELSE c
RECURSIVE UpperFrom(_, _)
UpperFrom(s, i) ==
    IF i > Len(s) THEN "" ELSE UpperChar(SubSeq(s, i, i)) \o UpperFrom(s, i + 1)
UpperCase(s) == UpperFrom(s, 1)

EndsWith(s, suffix) ==
    Len(suffix) <= Len(s) /\ SubSeq(s, Len(s) - Len(suffix) + 1, Len(s)) = suffix

\* RulesEngine._path_matches
PathMatchesExact(request_path, rule_path) == request_path = rule_path
PathMatches(request_path, rule_path) ==
    IF EndsWith(rule_path, "*")
    THEN StartsWith(request_path, SubSeq(rule_path, 1, Len(rule_path) - 1))
    ELSE request_path = rule_path

\* the body of the loop of match_request: TRUE if the rule is appended
RuleAccepts(rule, path, method) ==
    IF ~rule.enabled THEN FALSE
    ELSE IF rule.match_path # "" /\ ~PathMatches(path, rule.match_path) THEN FALSE
    ELSE IF rule.match_method # "" /\ UpperCase(rule.match_method) # UpperCase(method)
    THEN FALSE
    ELSE TRUE

\* RulesEngine.match_request: the rules of rs the loop appends, in order
RECURSIVE MatchRequest(_, _, _)
MatchRequest(rs, path, method) ==
    IF rs = <<>> THEN <<>>
    ELSE (IF RuleAccepts(Head(rs), path, method) THEN <<Head(rs)>> ELSE <<>>)
             \o MatchRequest(Tail(rs), path, method)

MatchRule(name, path, method, enabled) ==
    [name |-> name, match_path |-> path, match_method |-> method,
     enabled |-> enabled]
\* the rules a rule file may hold
MatchRules ==
    {MatchRule("login", "/api/login*", "POST", TRUE),
     MatchRule("exact", "/api/login", "", TRUE),
     MatchRule("gets", "", "get", TRUE),
     MatchRule("all", "*", "", TRUE),
     MatchRule("off", "/api/login*", "", FALSE)}
MaxMatchRules == 2
RuleLists ==
    UNION {[1..n -> MatchRules] : n \in 0..MaxMatchRules}
MatchPaths == {"/api/login", "/api/login/foo", "/api/LOGIN", "/api/logi", "/"}
MatchMethods == {"GET", "POST", "post", "PUT"}

NoMatchCall == [called |-> FALSE, rules |-> <<>>, path |-> "", method |-> "",
                matched |-> <<>>]

\* rules_engine.match_request(path, method), called once in a behaviour
\* with the rules rs loaded: the function reads the rules and writes nothing
MatchCall(rs, path, method) ==
    /\ ~matchRes.called
    /\ matchRes' = [called |-> TRUE, rules |-> rs, path |-> path,
                    method |-> method,
                    matched |-> MatchRequest(rs, path, method)]
    /\ UNCHANGED <<clock, kvClient, kvUp, zset, zexp, allowlist, blocklist,
                   blockKey, req, started, rlHist, rlVars, blkVars, chVars,
                   pxVars, ruleVars, traffic, behVars, scVars, mlVars, clsVars,
                   blVars, banVars>>

----------------------------------------------------------------------------
(* The clock and the Redis server *)

\* Redis deletes a key whose expiry deadline has passed
Expire(t) ==
    /\ zset' = [k \in DOMAIN zset |->
                  IF zexp[k] # 0 /\ zexp[k] <= t THEN {} ELSE zset[k]]
    /\ zexp' = [k \in DOMAIN zexp |->
                  IF zexp[k] # 0 /\ zexp[k] <= t THEN 0 ELSE zexp[k]]
    /\ blockKey' = [ip \in IPs |->
                  IF blockKey[ip] # 0 /\ blockKey[ip] <= t THEN 0 ELSE blockKey[ip]]

\* between two clock readings a coroutine is idle or waits for the upstream
InRedisCall(r) == req[r].pc \notin {"idle", "forward"}

Tick(d, max) ==
    /\ clock + d <= max
    /\ \A r \in Reqs : ~InRedisCall(r)
    /\ clock' = clock + d
    /\ Expire(clock + d)
    /\ UNCHANGED <<kvClient, detVars, kvUp, allowlist, blocklist, req, started, rlHist, rlVars,
                   blkVars, chVars, pxVars, ruleVars, traffic>>

KvLost ==
    /\ NoneDone
    /\ kvClient /\ kvUp
    /\ kvUp' = FALSE
    /\ UNCHANGED <<clock, kvClient, noBan, zset, zexp, allowlist, blocklist, blockKey,
                   req, started, rlHist, rlVars,
                   blkVars, chVars, pxVars, ruleVars, traffic>>
    /\ ban' = BanLifted(ban, IPs)

KvBack ==
    /\ kvClient /\ ~kvUp
    /\ kvUp' = TRUE
    /\ UNCHANGED <<clock, kvClient, detVars, zset, zexp, allowlist, blocklist, blockKey,
                   req, started, rlHist, rlVars,
                   blkVars, chVars, pxVars, ruleVars, traffic>>

----------------------------------------------------------------------------
(* DetectionEngine.score_request and the threshold test of the proxy that
   follows it.  Neither holds a suspension point: scorer.score() is a
   coroutine without an await of its own, so from the return of
   allow_with_count to the await of classify_attack one request runs alone
   on the event loop, while the worker thread of a training goes on.  The
   positions of a call name the statement that is next.  Scores are exact
   fractions in lowest terms. *)

ML_BLEND_WEIGHT == 4        \* in tenths
MaxEngCalls == 4

RECURSIVE GCD(_, _)
GCD(a, b) == IF b = 0 THEN a ELSE GCD(b, a % b)
Reduced(f) ==
    LET g == GCD(Abs(f.num), f.den)
    IN  Frac(f.num \div g, f.den \div g)
FAdd(a, b) == Reduced(Frac(a.num * b.den + b.num * a.den, a.den * b.den))
FMul(a, b) == Reduced(Frac(a.num * b.num, a.den * b.den))
FLess(a, b) == a.num * b.den < b.num * a.den
\* min(1.0, max(0.0, x))
FClamp(a) == Reduced(Frac(Clamp(a.num, a.den), a.den))
OfTenths(x) == Reduced(Frac(x, 10))

\* the request as score_request() sees it
EngBrowser == [profile |-> Profile("/", "Mozilla", "en", TRUE, TRUE, "h1"),
               header_count |-> 10, content_length |-> 0]
EngBot == [profile |-> Profile(LongPath, "", "", FALSE, FALSE, "h2"),
           header_count |-> 40, content_length |-> 10000]
\* the clients: a bot and a browser
EngClients == { [ip |-> "10.0.0.1", request |-> EngBot],
                [ip |-> "10.0.0.2", request |-> EngBrowser] }
EngRateCounts == {0, 2}

\* the statistics update_model() has computed, the values of __init__
\* before it
EngStats ==
    { [mean_header_count |-> 10, std_header_count |-> 2,
       mean_content_length |-> 100, std_content_length |-> 2000] }
InitStats == [mean_header_count |-> 0, std_header_count |-> 1,
              mean_content_length |-> 0, std_content_length |-> 1]
BaselineSeen(st) ==
    LET s == IF blReady THEN st ELSE InitStats
    IN  [is_ready |-> blReady, mean_header_count |-> s.mean_header_count,
         std_header_count |-> s.std_header_count,
         mean_content_length |-> s.mean_content_length,
         std_content_length |-> s.std_content_length]

\* _extract_features
ExtractFeatures(rq) ==
    [header_count |-> rq.header_count, content_length |-> rq.content_length,
     user_agent |-> rq.profile.user_agent, path |-> rq.profile.path]

\* rate_ratio = (rate_count / rate_limit) if rate_limit > 0 else 0.0
RateRatio(rate_count, rate_limit) ==
    IF rate_limit > 0 THEN Reduced(Frac(rate_count, rate_limit)) ELSE Frac(0, 1)

\* AnomalyScorer.score on exact arguments: sum(signals[k] * w), clamped
WeightedSum(features, baseline, rate_ratio, behavior_score) ==
    LET hc == ZToScore(features.header_count, baseline.mean_header_count,
                       baseline.std_header_count)
        cl == ZToScore(features.content_length, baseline.mean_content_length,
                       baseline.std_content_length)
        ua == OfTenths(ScoreUserAgent(features.user_agent))
        pe == OfTenths(ScorePath(features.path))
        rate == FClamp(rate_ratio)
        behavior == FClamp(behavior_score)
    IN  FAdd(FMul(Frac(15, 100), Reduced(hc)),
        FAdd(FMul(Frac(10, 100), Reduced(cl)),
        FAdd(FMul(Frac(20, 100), ua),
        FAdd(FMul(Frac(10, 100), pe),
        FAdd(FMul(Frac(20, 100), rate),
             FMul(Frac(25, 100), behavior))))))
EngineHeuristic(features, baseline, rate_ratio, behavior_score) ==
    IF LearningMode(baseline) THEN Frac(0, 1)
    ELSE FClamp(WeightedSum(features, baseline, rate_ratio, behavior_score))

\* (1 - ML_BLEND_WEIGHT) * heuristic_score + ML_BLEND_WEIGHT * ml_score,
\* ml_score in tenths
BlendEven(heuristic_score, ml_score) ==
    FAdd(FMul(Frac(5, 10), heuristic_score), FMul(Frac(5, 10), OfTenths(ml_score)))
Blend(heuristic_score, ml_score) ==
    FAdd(FMul(Frac(10 - ML_BLEND_WEIGHT, 10), heuristic_score),
         FMul(Frac(ML_BLEND_WEIGHT, 10), OfTenths(ml_score)))

\* the statements of score_request() that read or write the state of the
\* detection, in the order of the code
StatementOrderAppendFirst ==
    <<"behavior", "sample", "observe", "heuristic", "ml", "blend", "return">>
StatementOrder ==
    <<"behavior", "heuristic", "ml", "blend", "sample", "observe", "return">>
After(pc) ==
    LET i == CHOOSE k \in 1..Len(StatementOrder) : StatementOrder[k] = pc
    IN  StatementOrder[i + 1]

\* the proxy: `if bscore and bscore.request_count >= 3`, then _compute_score
\* of a fresh analyzer on the session, else 0.0
HandlerJudgesFrom4(s) == s # NoSession /\ s.request_count >= 4
HandlerJudges(s) == s # NoSession /\ s.request_count >= 3
HandlerBehaviorScore(s) == IF HandlerJudges(s) THEN ComputeScore(s) ELSE Frac(0, 1)

NoEng == [pc |-> "idle", n |-> 0, ip |-> "none", request |-> EngBrowser,
          rate_count |-> 0, rate_ratio |-> Frac(0, 1),
          stats_before |-> NoStats, appended |-> {},
          count |-> 0, behavior_score |-> Frac(0, 1),
          learning |-> FALSE, heuristic_score |-> Frac(0, 1), h_after |-> {},
          ml_score |-> 0, m_after |-> {}, ml_ready |-> FALSE,
          score |-> Frac(0, 1), out |-> "none", bscore_val |-> Frac(0, 1)]

\* what the engine leaves alone
notEng == <<kvClient, kvUp, zset, zexp, allowlist, blocklist, blockKey, req,
            rlHist, rlVars, blkVars, chVars, pxVars, ruleVars, traffic,
            clsVars, matchVars, banVars, scoreRes, clock, started>>

\* no score_request() call is running
EngIdle == eng.pc = "idle"

\* score_request(request, client_ip, rate_count, settings.rate_limit_per_ip)
\* up to record_and_score
EngCall(ip, rq, rate_count) ==
    /\ mlUp
    /\ EngIdle
    /\ LoopThreadFree
    /\ eng.n < MaxEngCalls
    /\ eng' = [NoEng EXCEPT !.pc = StatementOrder[1], !.n = eng.n + 1,
                            !.ip = ip, !.request = rq,
                            !.rate_count = rate_count,
                            !.rate_ratio = RateRatio(rate_count, RateLimitPerIp),
                            !.stats_before = blStats]
    /\ UNCHANGED <<notEng, behVars, mlVars, blVars>>

\* behavior_score = behavior_analyzer.record_and_score(...)
EngBehavior ==
    /\ eng.pc = "behavior"
    /\ RecordAndScoreEffect(eng.ip, eng.request.profile)
    /\ eng' = [eng EXCEPT !.pc = After("behavior"),
                          !.count = behRes'.count,
                          !.behavior_score = behRes'.score]
    /\ UNCHANGED <<notEng, mlVars, blVars>>

\* heuristic_score = await self.scorer.score(features, self.baseline, ...)
EngHeuristic(st) ==
    /\ eng.pc = "heuristic"
    /\ eng' = [eng EXCEPT !.pc = After("heuristic"),
                          !.learning = ~blReady,
                          !.h_after = eng.appended,
                          !.heuristic_score =
                              EngineHeuristic(ExtractFeatures(eng.request),
                                              BaselineSeen(st), eng.rate_ratio,
                                              eng.behavior_score)]
    /\ UNCHANGED <<notEng, behVars, mlVars, blVars>>

\* ml_score = self.ml.score(features, rate_ratio, behavior_score); raw, what
\* decision_function returns, in tenths
EngMlScore(raw) ==
    /\ eng.pc = "ml"
    /\ eng' = [eng EXCEPT !.pc = After("ml"),
                          !.m_after = eng.appended,
                          !.ml_score = IF IsReady THEN Normalized(raw) ELSE 0]
    /\ UNCHANGED <<notEng, behVars, mlVars, blVars>>

\* if self.ml.is_ready: the blend, else the heuristic score
EngBlend ==
    /\ eng.pc = "blend"
    /\ eng' = [eng EXCEPT !.pc = After("blend"),
                          !.ml_ready = IsReady,
                          !.score = IF IsReady
                                    THEN Blend(eng.heuristic_score, eng.ml_score)
                                    ELSE eng.heuristic_score]
    /\ UNCHANGED <<notEng, behVars, mlVars, blVars>>

\* self.ml.record_sample(features, rate_ratio, behavior_score)
EngRecordSample ==
    /\ eng.pc = "sample"
    /\ mlBuffer' = Min(mlBuffer + 1, BufferMaxlen)
    /\ eng' = [eng EXCEPT !.pc = After("sample"),
                          !.appended = @ \cup {"sample"}]
    /\ UNCHANGED <<notEng, behVars, blVars, mlUp, mlTrained, mlModel, mlScaler,
                   mlLastTrain, mlTrainCount, mlLock, mlCall, mlRes,
                   mlScoreRes, mlRead, mlRaised>>

\* self.baseline.record_observation(features): features["timestamp"] is the
\* time.time() of _extract_features
EngRecordObservation ==
    /\ eng.pc = "observe"
    /\ blObs' = EvictOld(Append(blObs, Now), Now)
    /\ blCallAt' = Now
    /\ eng' = [eng EXCEPT !.pc = After("observe"),
                          !.appended = @ \cup {"observation"}]
    /\ UNCHANGED <<notEng, behVars, mlVars, blReady, blStats>>

\* return min(1.0, max(0.0, score)), and in the proxy
\* `if threat_score >= settings.anomaly_threshold` with the behaviour score
\* it hands to classify_attack
EngReturn ==
    LET threat_score == FClamp(eng.score)
        crossed == ~FLess(threat_score, Frac(ANOMALY_THRESHOLD, 100))
    IN  /\ eng.pc = "return"
        /\ eng' = [eng EXCEPT !.pc = "idle",
                              !.score = threat_score,
                              !.out = IF crossed THEN "classified" ELSE "passed",
                              !.bscore_val =
                                  IF crossed
                                  THEN HandlerBehaviorScore(GetSession(eng.ip))
                                  ELSE Frac(0, 1)]
        /\ UNCHANGED <<notEng, behVars, mlVars, blVars>>

----------------------------------------------------------------------------
Init ==
    /\ clock = 0
    /\ kvClient \in BOOLEAN
    /\ kvUp = kvClient
    /\ zset = [k \in Keys |-> {}]
    /\ zexp = [k \in Keys |-> 0]
    /\ allowlist = {}
    /\ blocklist = {}
    /\ blockKey = [ip \in IPs |-> 0]
    /\ req = [r \in Reqs |-> Idle]
    /\ started = 0
    /\ blkRes = NoResult
    /\ wrRes = NoWrite
    /\ chRes = NoChallenge
    /\ issued = <<>>
    /\ rules = <<>>
    /\ ruleRes = NoRuleResult
    /\ traffic = NoTraffic
    /\ ruleLog = [k \in RuleNames \X Clients |-> <<>>]
    /\ rlRes = NoRlResult
    /\ ipLog = [ip \in IPs |-> <<>>]
    /\ sessions = [ip \in BehIPs |-> NoSession]
    /\ lastCleanup = 0
    /\ behRes = NoBehResult
    /\ behCalls = [ip \in BehIPs |-> 0]
    /\ recorded = {}
    /\ scoreRes = NoScore
    /\ eng = NoEng
    /\ mlUp = FALSE
    /\ mlTrained = FALSE
    /\ mlModel = 0
    /\ mlScaler = 0
    /\ mlLastTrain = 0
    /\ mlTrainCount = 0
    /\ mlBuffer = 0
    /\ mlLock = "none"
    /\ mlCall = [c \in Callers |-> NoCall]
    /\ mlRes = NoTrainResult
    /\ mlScoreRes = NoPrediction
    /\ mlRead = NoRead
    /\ mlRaised = {}
    /\ clsRes = NoClass
    /\ matchRes = NoMatchCall
    /\ blObs = <<>>
    /\ blReady = FALSE
    /\ blCallAt = -1
    /\ blStats = NoStats
    /\ ban = [ips |-> {}, late |-> {}, trusted |-> {}]
    /\ rlHist = [ip \in IPs |-> [first |-> -1, last |-> -1, n |-> 0, t |-> 0,
                                 clean |-> TRUE]]

NextRL ==
    \/ \E r \in Reqs, ip \in IPs : CallAllow(r, ip, "allow")
    \/ \E r \in Reqs, ip \in IPs : CallAllow(r, ip, "awc")
    \/ \E r \in Reqs : RlLayer(r)
    \/ \E r \in Reqs : RlCount(r)
    \/ Tick(TickStep, MaxClock)

SpecRL == Init /\ [][NextRL]_vars

NextRule ==
    \/ \E r \in Reqs, ip \in Clients, name \in RuleNames : CallRuleLimit(r, ip, name)
    \/ \E r \in Reqs : RuleLimitExec(r)
    \/ \E r \in Reqs, ip \in Clients : CallAllow(r, ip, "allow")
    \/ \E r \in Reqs : RlLayer(r)
    \/ Tick(TickStep, MaxClock)

SpecRule == Init /\ [][NextRule]_vars

NextBlk ==
    \/ \E r \in Reqs, ip \in IPs : CallIsBlocked(r, ip)
    \/ \E r \in Reqs : IsBlockedAllowlist(r)
    \/ \E r \in Reqs : IsBlockedKey(r)
    \/ \E r \in Reqs : IsBlockedSet(r)
    \/ \E ip \in IPs, dur \in BlockDurations : Block(ip, dur)
    \/ \E r \in Reqs, ip \in IPs : UnblockDelete(r, ip)
    \/ \E r \in Reqs : UnblockSrem(r)
    \/ \E ip \in IPs : BlockerAllow(ip)
    \/ Tick(TickStep, MaxClock)
    \/ KvLost
    \/ KvBack

SpecBlk == Init /\ [][NextBlk]_vars

NextCh ==
    \/ \E ip \in IPs, cookie \in Cookies : MaybeChallenge(ip, cookie)
    \/ Tick(ChTickStep, ChMaxClock)

SpecCh == Init /\ [][NextCh]_vars

Next ==
    \/ \E ladder \in Ladders : LoadRules(ladder)
    \/ \E r \in Reqs, ip \in Clients, path \in Paths, cookie \in RequestCookies :
          Request(r, ip, path, cookie)
    \/ \E r \in Reqs : IsBlockedAllowlist(r)
    \/ \E r \in Reqs : IsBlockedKey(r)
    \/ \E r \in Reqs : IsBlockedSet(r)
    \/ \E r \in Reqs : RuleCheck(r)
    \/ \E r \in Reqs : RlLayer(r)
    \/ \E r \in Reqs : RlCount(r)
    \/ \E r \in Reqs, threat \in ThreatScores, level \in Levels, uam \in BOOLEAN :
          Detect(r, threat, level, uam)
    \/ \E r \in Reqs : BlockAndForbid(r)
    \/ \E r \in Reqs, ok \in BOOLEAN : Forward(r, ok)
    \/ \E r \in Reqs : Close(r)
    \/ Tick(TickStep, PxMaxClock)
    \/ KvLost

Spec == Init /\ [][Next]_vars

\* scenario E4 on one ip: the requests of a flood on the protected path,
\* inside one window, scored below the threshold; every request is served
NextE4 ==
    \/ \E path \in {"/login", "/api/login"} : LoadLogin(path)
    \/ \E r \in Reqs, cookie \in RequestCookies : FloodRequest(r, "10.0.0.1", cookie)
    \/ \E r \in Reqs : IsBlockedAllowlist(r)
    \/ \E r \in Reqs : IsBlockedKey(r)
    \/ \E r \in Reqs : IsBlockedSet(r)
    \/ \E r \in Reqs : RuleCheck(r)
    \/ \E r \in Reqs : RlLayer(r)
    \/ \E r \in Reqs : RlCount(r)
    \/ \E r \in Reqs : Detect(r, 74, "monitor", FALSE)
    \/ \E r \in Reqs : BlockAndForbid(r)
    \/ \E r \in Reqs, ok \in BOOLEAN : Forward(r, ok)
    \/ \E r \in Reqs : Close(r)

SpecE4 == Init /\ [][NextE4]_vars /\ WF_vars(NextE4)

----------------------------------------------------------------------------
(* Claims on the rate limiter, checked under SpecRL *)

\* the allow()/allow_with_count() calls on ip observed so far all lie in one
\* window, none failed open and none was rejected by the subnet or global layer
OneCleanWindow(ip) ==
    /\ rlHist[ip].first >= 0
    /\ rlHist[ip].clean
    /\ ~InFlight(ip)
    /\ clock - rlHist[ip].first < WINDOW_SEC

\* C1: of the N calls of allow(ip) made within one 60-second window, with the
\* subnet and global limits not binding, exactly min(N, L) returned True,
\* whatever the interleaving of the callers.
C1_ExactlyMinAllowed ==
    \A ip \in IPs :
        OneCleanWindow(ip) =>
            rlHist[ip].t = Min(rlHist[ip].n, RateLimitPerIp)

\* three calls on one IP in one window: two returned True, one False
C1_Witness ==
    \E ip \in IPs :
        /\ OneCleanWindow(ip)
        /\ rlHist[ip].n > RateLimitPerIp
        /\ rlHist[ip].t = RateLimitPerIp

\* calls in flight that have executed their per-IP pipeline on ip at timestamp t
PastIpLayer(ip, t) ==
    {r \in Reqs : /\ req[r].pc \in {"rl_sub", "rl_glob", "rl_cnt"}
                  /\ req[r].ip = ip /\ req[r].now = t}

\* C2: concurrent inserts on one key with the identical timestamp are stored as
\* distinct members: the key holds one member of that timestamp per insert.
C2_IdenticalNowBothStored ==
    \A ip \in IPs :
        Cardinality(PastIpLayer(ip, clock)) <=
            Cardinality({m \in zset[IpKey(ip)] : Score(m) = clock})

\* two callers executed their per-IP pipeline at the same timestamp
C2_Witness ==
    \E ip \in IPs :
        /\ Cardinality(PastIpLayer(ip, clock)) = 2
        /\ Cardinality({m \in zset[IpKey(ip)] : Score(m) = clock}) >= 2

ExpectedIsBlocked(snap) ==
    IF snap.al THEN "False"
    ELSE IF snap.key \/ snap.bl THEN "True" ELSE "False"

\* C4: an is_blocked(ip) call that returns a value, Redis holding the same
\* about ip throughout the call, returns False when ip is allowlisted
\* (whatever TTL key or blocklist entry exists), and otherwise True iff a
\* live block:<ip> key exists or ip is in the permanent blocklist
C4_IsBlockedPrecedence ==
    (blkRes.stable /\ blkRes.out # "raised")
        => blkRes.out = ExpectedIsBlocked(blkRes.snap)

C4_Witness ==
    /\ blkRes.stable
    /\ blkRes.snap.al
    /\ blkRes.snap.key
    /\ blkRes.out = "False"
    /\ kvClient

\* the five conditions of the cookie format ip:nonce:ts:sig:pow_nonce
FiveConditions(cookie, client_ip, now) ==
    LET parts == Split(cookie)
    IN  /\ Len(parts) = 5
        /\ parts[1] = client_ip
        /\ IsNumeric(parts[3])
        /\ now - IntOf(parts[3]) <= CHALLENGE_TTL
        /\ parts[4] = Hmac(parts[1] \o ":" \o parts[2] \o ":" \o parts[3])
        /\ Sha256Starts00(cookie)

FreshToken(tok, ip, now) ==
    /\ Len(issued) > 0
    /\ issued[Len(issued)] = tok
    /\ \A i \in 1..(Len(issued) - 1) : issued[i] # tok
    /\ \E n \in 1..Len(issued) : tok = GenerateChallenge(ip, n, now)

\* C5: maybe_challenge passes a request iff its cookie has exactly five
\* colon-separated parts, the first being the client ip, with now - ts <=
\* 3600, sig the HMAC of ip:nonce:ts and a proof-of-work hash starting "00";
\* in every other case it answers 503 with a freshly issued token
C5_VerifyIffFiveConditions ==
    chRes.out # "none" =>
        /\ chRes.out = "pass" <=> FiveConditions(chRes.cookie, chRes.ip, chRes.now)
        /\ chRes.out # "pass" =>
              /\ chRes.out = "503"
              /\ chRes.now = clock => FreshToken(chRes.token, chRes.ip, chRes.now)

C5_Witness ==
    /\ chRes.out = "pass"
    /\ chRes.now - IntOf(Split(chRes.cookie)[3]) = CHALLENGE_TTL

\* the clock readings at which a challenge can have been generated
ChClocks == {t \in 0..clock : t % ChTickStep = 0}

\* cookie is a token generated for ip within the last CHALLENGE_TTL seconds,
\* completed by the page's script with a nonce whose hash starts "00"
SolvedFor(cookie, ip, now) ==
    \E n \in 1..Len(issued), t \in ChClocks, p \in PowNonces :
        /\ now - t <= CHALLENGE_TTL
        /\ GenerateChallenge(ip, n, t) \in Range(issued)
        /\ cookie = GenerateChallenge(ip, n, t) \o ":" \o p
        /\ Sha256Starts00(cookie)

\* C6: for every client ip, IPv6 addresses included, the token issued for
\* that ip, completed with a solving pow_nonce and presented from the same
\* ip within 3600 s, is accepted: the request is passed, not challenged
C6_RoundTrip ==
    (chRes.out # "none" /\ SolvedFor(chRes.cookie, chRes.ip, chRes.now))
        => chRes.out = "pass"

Done(r) == req[r].pc = "done"
CookieValid(rec) == rec.cookie # "" /\ VerifyToken(rec.cookie, rec.ip, clock)
Hot(rec) == rec.det /\ rec.threat >= ANOMALY_THRESHOLD

\* every Redis command of the request was answered, or there is no client
Served(rec) == rec.stage # "error"

\* C3: a request that met an unreachable KV store, never connected or lost
\* after the connect, goes on to detection and no error reaches the client
C3_FailOpen ==
    \A r \in Reqs :
        (Done(r) /\ req[r].kvdown) => (req[r].det /\ req[r].status # 500)

\* C7: a scored request below the threshold is forwarded; at or above it, it
\* is forwarded under MONITOR, answered 503 under JS_CHALLENGE unless its
\* cookie is valid (then forwarded), answered 429 under RATE_LIMIT, and under
\* BLOCK / BLACKHOLE answered 403 with its ip in the permanent blocklist of
\* the connected store.  The level is the effective one; the KV store
\* answers the request's commands (its failure is the matter of C3)
C7_GraduatedMitigation ==
    \A r \in Reqs :
        LET rec == req[r]
            level == IF rec.uam THEN "block" ELSE rec.level
        IN  (Done(r) /\ rec.det /\ Served(rec)) =>
              /\ ~Hot(rec) => rec.fwd
              /\ (Hot(rec) /\ level = "monitor") => rec.fwd
              /\ (Hot(rec) /\ level = "js_challenge") =>
                    IF CookieValid(rec) THEN rec.fwd ELSE rec.status = 503
              /\ (Hot(rec) /\ level = "rate_limit") => rec.status = 429
              /\ (Hot(rec) /\ level \in {"block", "blackhole"}) =>
                    (rec.status = 403 /\ (kvClient => rec.ip \in blocklist))
              /\ Hot(rec) => level \in Levels

C7_Witness ==
    \E r \in Reqs :
        /\ Done(r)
        /\ Hot(req[r])
        /\ req[r].level = "blackhole"
        /\ ~req[r].uam
        /\ req[r].status = 403
        /\ req[r].ip \in blocklist

\* C8: with under_attack_mode on, a request at or above the threshold is
\* answered 403 and its ip is in the permanent blocklist of the connected
\* store, whatever the configured protection_level; the KV store answers
\* the request's commands
C8_UnderAttackBlocks ==
    \A r \in Reqs :
        (Done(r) /\ Hot(req[r]) /\ req[r].uam /\ Served(req[r])) =>
            (req[r].status = 403 /\ (kvClient => req[r].ip \in blocklist))

C8_Witness ==
    \E r \in Reqs :
        /\ Done(r)
        /\ Hot(req[r])
        /\ req[r].uam
        /\ req[r].level = "monitor"
        /\ req[r].status = 403
        /\ req[r].ip \in blocklist

\* C9: a request answered at the block check has inserted into no
\* rate-limit window, and a request answered at the block check, at a rule
\* limit or at the global rate limit was not recorded by score_request
C9_EarlyExitsSideEffectFree ==
    \A r \in Reqs :
        Done(r) =>
            /\ req[r].stage = "blocklist" => (req[r].status = 403 /\ req[r].ins = 0)
            /\ req[r].stage \in {"blocklist", "rule", "global"} => ~req[r].det

C9_Witness ==
    \E r \in Reqs :
        /\ Done(r)
        /\ req[r].stage = "blocklist"
        /\ req[r].status = 403
        /\ \E k \in Keys : zset[k] # {}

\* block_duration(steps): the duration of the highest-threshold step that
\* has one, in seconds; 0 when no step has one
BlockDuration(steps) ==
    LET with == {i \in DOMAIN steps : steps[i].duration # ""}
    IN  IF with = {} THEN 0
        ELSE LET top == CHOOSE i \in with :
                          \A j \in with : steps[j].threshold <= steps[i].threshold
             IN  DurationToSeconds(steps[top].duration)

\* C10: a request rejected by a rule's per-IP limit is never forwarded; on
\* escalation block the ip is blocked for block_duration (for good when
\* there is none) and the answer is 403; on js_challenge without a valid
\* cookie the answer is the 503 page; otherwise the answer is 429.  The KV
\* store answers the request's commands
C10_RuleRejection ==
    \A r \in Reqs :
        LET rec == req[r]
            ttl == BlockDuration(rules[1].escalation)
        IN  (Done(r) /\ rec.act # "none") =>
              /\ ~rec.fwd
              /\ Served(rec) =>
                  /\ rec.act = "block" =>
                        /\ rec.status = 403
                        /\ IF ttl # 0 THEN blockKey[rec.ip] = clock + ttl
                           ELSE rec.ip \in blocklist
                  /\ (rec.act = "js_challenge" /\ ~CookieValid(rec))
                        => rec.status = 503
                  /\ (rec.act # "block" /\ (rec.act = "js_challenge" => CookieValid(rec)))
                        => rec.status = 429

C10_Witness ==
    \E r \in Reqs :
        /\ Done(r)
        /\ req[r].act = "block"
        /\ req[r].status = 403
        /\ Len(rules[1].escalation) = 2
        /\ blockKey[req[r].ip] = clock + 40

----------------------------------------------------------------------------
(* Claims on check_rule_limit, checked under SpecRule *)

\* the executed checks of (rule, ip) at or before now and less than W
\* seconds before it
InRuleWindow(name, ip, now) ==
    {i \in DOMAIN ruleLog[<<name, ip>>] :
        now - ruleLog[<<name, ip>>][i] < RuleParams(name).window}

\* C11: the k-th check of a rule for an ip within W seconds returns count k
\* and allowed iff k <= L, whatever checks ran for other ips, other rules
\* and the rl:ip window (the store connected and answering)
C11_RuleWindowIndependent ==
    ruleRes.out = "ret" =>
        LET k == Cardinality(InRuleWindow(ruleRes.rule, ruleRes.ip, ruleRes.now))
        IN  /\ ruleRes.count = k
            /\ ruleRes.allowed <=> k <= RuleParams(ruleRes.rule).limit

C11_Witness ==
    /\ ruleRes.out = "ret"
    /\ ruleRes.rule = "login"
    /\ ruleRes.count = 3
    /\ ~ruleRes.allowed
    /\ \/ \E ip \in Clients : ip # ruleRes.ip /\ zset[RuleKey("login", ip)] # {}
       \/ zset[RuleKey("catch", ruleRes.ip)] # {}

----------------------------------------------------------------------------
(* Claims on scenario E4, checked under SpecE4 *)

RuleOn(path) == rules # <<>> /\ rules[1].match_path = path

\* a rule rejection is answered with the challenge page
JsOutcome ==
    \E r \in Reqs : Done(r) /\ req[r].act = "js_challenge" /\ req[r].status = 503

\* a rule rejection is answered 403 and block:<ip> lives for 3600 s
BlockOutcome ==
    \E r \in Reqs :
        /\ Done(r)
        /\ req[r].act = "block"
        /\ req[r].status = 403
        /\ blockKey[req[r].ip] = clock + 3600

\* C12: with the Login Protection rule on a path the proxy serves and the
\* store connected, a flood beyond the rule's limit meets both escalation
\* outcomes: the challenge page (503) on some rejected request and 403 with
\* block:<ip> of TTL 3600 s on another
C12_BothEscalationOutcomes ==
    (kvClient /\ <>RuleOn("/login")) => (<>JsOutcome /\ <>BlockOutcome)

\* what the code does instead: the flood always ends in the block, and no
\* rule rejection is ever answered with the challenge page
E4_FloodIsBlocked == (kvClient /\ <>RuleOn("/login")) => <>BlockOutcome
E4_NoJsOutcome == ~JsOutcome

\* C13: a request to /api/login, matched by a rule, reaches the rule's
\* limit check and is not answered outside the pipeline
C13_ApiLoginReachesRule ==
    \A r \in Reqs :
        (Done(r) /\ req[r].path = "/api/login" /\ RuleOn("/api/login")) =>
            (req[r].status # 404 /\ (kvClient => req[r].ins > 0))

----------------------------------------------------------------------------
(* Claims on the reserved paths, checked under Spec *)

ReservedPrefixes == {"/api/", "/ws/", "/openapi.json"}
Reserved(path) ==
    \E p \in ReservedPrefixes :
        \E n \in 1..Len(path) : SubSeq(path, 1, n) = p

\* C14: the step that takes a request on a reserved path answers it 404 and
\* changes nothing else: no traffic counter, no rate-limit window, no block
\* entry, no challenge, and score_request does not run for it
C14_ReservedPathsUntouched ==
    [][\A r \in Reqs :
          (req[r].pc = "idle" /\ req'[r].pc # "idle" /\ Reserved(req'[r].path)) =>
              /\ req'[r].pc = "done"
              /\ req'[r].status = 404
              /\ ~req'[r].det
              /\ req'[r].ins = 0
              /\ UNCHANGED <<traffic, zset, zexp, allowlist, blocklist, blockKey,
                             issued>>]_vars

C14_Witness ==
    \E r \in Reqs :
        /\ Done(r)
        /\ req[r].path = "/ws/live"
        /\ req[r].status = 404
        /\ traffic.total = 1

----------------------------------------------------------------------------
(* Claims on block and unblock, checked under SpecBlk *)

\* C15: block(ip, ttl) with a ttl writes block:<ip> alone, to expire ttl
\* seconds later, and no block:<ip> outlives its deadline; block(ip) without
\* ttl adds ip to the permanent set alone; when unblock(ip) has returned, no
\* block(ip) having run since it started, the key and the set entry are both
\* gone; and is_blocked(ip) returns False whenever neither exists
C15_BlockUnblock ==
    /\ [](\A ip \in IPs : blockKey[ip] # 0 => blockKey[ip] > clock)
    /\ []((wrRes.out = "unblocked" /\ wrRes.stable) =>
             (blockKey[wrRes.ip] = 0 /\ wrRes.ip \notin blocklist))
    /\ []((blkRes.out \in {"True", "False"} /\ blkRes.stable
             /\ ~blkRes.snap.key /\ ~blkRes.snap.bl) => blkRes.out = "False")
    /\ [][(wrRes' # wrRes /\ wrRes'.out = "blocked") =>
             IF wrRes'.dur # 0
             THEN /\ blockKey' = [blockKey EXCEPT ![wrRes'.ip] = clock + wrRes'.dur]
                  /\ blocklist' = blocklist
             ELSE /\ blocklist' = blocklist \cup {wrRes'.ip}
                  /\ blockKey' = blockKey]_vars

C15_Witness ==
    /\ wrRes.out = "unblocked"
    /\ wrRes.stable
    /\ wrRes.snap.key
    /\ wrRes.snap.bl
    /\ blockKey[wrRes.ip] = 0
    /\ wrRes.ip \notin blocklist

----------------------------------------------------------------------------
(* Claims on the layers of allow / allow_with_count, checked under SpecRL *)

LayerIndex(layer) ==
    CASE layer = "rl_ip" -> 1 [] layer = "rl_sub" -> 2 [] layer = "rl_glob" -> 3
      [] OTHER -> 0

\* C16: a call rejected at the per-IP layer has run one _check_key (nothing
\* inserted into the subnet and global windows), one rejected at the subnet
\* layer two (nothing inserted into the global window), and a call is
\* allowed only after all three; allow_with_count returns, allowed or
\* rejected at any layer, the number of per-IP checks of the ip in the
\* window, its own among them
C16_ShortCircuitAndCount ==
    rlRes.out = "ret" =>
        /\ ~rlRes.allowed => (rlRes.layer # "none" /\ rlRes.ins = LayerIndex(rlRes.layer))
        /\ rlRes.allowed => (rlRes.layer = "none" /\ rlRes.ins = 3)
        /\ rlRes.op = "awc" => (rlRes.count = rlRes.expect /\ rlRes.count >= 1)

C16_Witness ==
    /\ rlRes.out = "ret"
    /\ rlRes.op = "awc"
    /\ ~rlRes.allowed
    /\ rlRes.layer = "rl_sub"
    /\ rlRes.ins = 2
    /\ rlRes.count = 1

\* C32: whenever allow_with_count(ip) returns allowed = True, the per-IP
\* count it returns is at most rate_limit_per_ip, under any interleaving of
\* concurrent requests from the same ip
C32_AllowedCountWithinLimit ==
    (rlRes.op = "awc" /\ rlRes.out = "ret" /\ rlRes.allowed)
        => rlRes.count <= RateLimitPerIp

\* the per-IP checks on ip that were executed so far, all within WINDOW_SEC
\* of the latest one, the key not expired since
ChecksOfOneWindow(ip) ==
    LET log == ipLog[ip]
    IN  /\ log # <<>>
        /\ zexp[IpKey(ip)] # 0
        /\ \A i \in DOMAIN log : log[Len(log)] - log[i] < WINDOW_SEC

\* C33: every per-IP check inserts its member whether or not it is allowed:
\* after k checks for one ip within a 60-second window the per-IP window
\* holds k members, not min(k, L)
C33_RejectedStillCounted ==
    \A ip \in IPs :
        ChecksOfOneWindow(ip) => Cardinality(zset[IpKey(ip)]) = Len(ipLog[ip])

\* three checks in one window under a limit of 1: two were rejected, the
\* window holds three members
C33_Witness ==
    \E ip \in IPs :
        /\ ChecksOfOneWindow(ip)
        /\ ~InFlight(ip)
        /\ Len(ipLog[ip]) = 3
        /\ rlHist[ip].t = 1
        /\ Cardinality(zset[IpKey(ip)]) = 3
        /\ RateLimitPerIp < 3

----------------------------------------------------------------------------
(* allow / allow_with_count after a pause, checked under SpecPause: the
   clock steps by the length of the window *)

PauseTickStep == 60
PauseMaxClock == 120

NextPause ==
    \/ \E r \in Reqs, ip \in IPs : CallAllow(r, ip, "allow")
    \/ \E r \in Reqs, ip \in IPs : CallAllow(r, ip, "awc")
    \/ \E r \in Reqs : RlLayer(r)
    \/ \E r \in Reqs : RlCount(r)
    \/ Tick(PauseTickStep, PauseMaxClock)

SpecPause == Init /\ [][NextPause]_vars

\* the per-IP check that was executed last on ip is the only one of the
\* WINDOW_SEC before it: ip sent nothing for 60 s or more
AlonePastPause(ip, now) ==
    LET log == ipLog[ip]
    IN  /\ log # <<>>
        /\ log[Len(log)] = now
        /\ \A i \in 1..(Len(log) - 1) : now - log[i] >= WINDOW_SEC

\* C34: recovery: the first allow() / allow_with_count() of an ip after 60 s
\* or more without a request of it passes the per-IP layer when the per-IP
\* limit is 1 or more, however many requests, allowed or rejected, came
\* before the pause
C34_RecoveryAfterPause ==
    /\ \A r \in Reqs :
          (/\ req[r].op \in {"allow", "awc"}
           /\ req[r].pc \in {"rl_sub", "rl_glob", "rl_cnt"}
           /\ AlonePastPause(req[r].ip, req[r].now)
           /\ RateLimitPerIp >= 1) => req[r].layer # "rl_ip"
    /\ (/\ rlRes.out = "ret"
        /\ rlRes.expect = 1
        /\ RateLimitPerIp >= 1) => rlRes.layer # "rl_ip"

\* two checks of one instant, one of them rejected, a pause of exactly 60 s
\* with the key still alive, and the next call has passed the per-IP layer
C34_Witness ==
    \E r \in Reqs :
        /\ req[r].op \in {"allow", "awc"}
        /\ req[r].pc = "rl_sub"
        /\ Len(ipLog[req[r].ip]) = 3
        /\ ipLog[req[r].ip][1] = req[r].now - WINDOW_SEC
        /\ ipLog[req[r].ip][2] = req[r].now - WINDOW_SEC
        /\ rlHist[req[r].ip].t = 0
        /\ AlonePastPause(req[r].ip, req[r].now)
        /\ req[r].layer = "none"

----------------------------------------------------------------------------
(* The behaviour analyzer called directly *)

BehSteps == {15, 601}
VariedIPs == {"10.0.0.1", "10.0.0.2"}

\* any client, any headers
VariedRecord(ip, p) ==
    /\ started < MaxVaried
    /\ RecordAndScore(ip, p)

\* the clock is read once between two calls
VariedTick(d) ==
    /\ started >= 1
    /\ started < MaxVaried
    /\ behRes.now = Now
    /\ Tick(d, BehMaxClock)

NextBeh ==
    \/ \E ip \in VariedIPs, p \in Profiles : VariedRecord(ip, p)
    \/ \E d \in BehSteps : VariedTick(d)

SpecBeh == Init /\ [][NextBeh]_vars

BurstProfiles == {p \in Profiles : p.path \in {"/", "/login"}}

\* a burst: one client sends the same request again and again
BurstStart(p) ==
    /\ started = 0
    /\ RecordAndScore("10.0.0.1", p)

BurstRepeat ==
    /\ started >= 1
    /\ started < MaxRecords
    /\ RecordAndScore(behRes.ip, behRes.profile)

\* the clock is read once between two requests of the burst
PacedTick(d) ==
    /\ started >= 1
    /\ started < MaxPaced
    /\ behRes.now = Now
    /\ Tick(d, BurstMaxClock)

NextBurst ==
    \/ \E p \in BurstProfiles : BurstStart(p)
    \/ BurstRepeat
    \/ \E d \in {2, 3} : PacedTick(d)

SpecBurst == Init /\ [][NextBurst]_vars

\* C17: record_and_score returns a value in [0, 1], and exactly 0.0 whenever
\* the session's request_count after recording is below 3
C17_ScoreRange ==
    behRes.ip # "none" =>
        /\ 0 <= behRes.score.num
        /\ behRes.score.num <= behRes.score.den
        /\ behRes.count < 3 => behRes.score.num = 0

\* the second request of a session that repeats its path, without referer,
\* cookie or accept-language, scores 0.0
C17_Witness ==
    /\ behRes.count = 2
    /\ behRes.score.num = 0
    /\ UniquePaths(sessions[behRes.ip]) = 1
    /\ sessions[behRes.ip].accept_languages = {}

\* C18: for every tracked session request_count equals the number of
\* record_and_score calls for that IP since the session was created, the
\* intervals deque holds min(request_count - 1, 200) entries and the paths
\* deque min(request_count, 100); get_session returns None for an IP never
\* recorded
C18_SessionCounts ==
    /\ \A ip \in BehIPs :
          sessions[ip] # NoSession =>
             /\ sessions[ip].request_count = behCalls[ip]
             /\ Len(sessions[ip].inter_arrival_times)
                   = Min(sessions[ip].request_count - 1, IAT_MAXLEN)
             /\ Len(sessions[ip].paths_visited)
                   = Min(sessions[ip].request_count, PATHS_MAXLEN)
    /\ \A ip \in BehIPs \ recorded : GetSession(ip) = NoSession

\* a session past both deque capacities, next to an IP never recorded
C18_Witness ==
    \E ip \in BehIPs :
        /\ sessions[ip] # NoSession
        /\ sessions[ip].request_count > IAT_MAXLEN + 1
        /\ Len(sessions[ip].inter_arrival_times) = IAT_MAXLEN
        /\ Len(sessions[ip].paths_visited) = PATHS_MAXLEN
        /\ \E other \in BehIPs \ recorded : GetSession(other) = NoSession

----------------------------------------------------------------------------
(* The heuristic scorer called directly *)

NextScore ==
    \E features \in Features, baseline \in Baselines,
       rate_ratio \in Tenths, behavior_score \in Tenths :
        ScoreCall(features, baseline, rate_ratio, behavior_score)

SpecScore == Init /\ [][NextScore]_vars

\* C19: the heuristic scorer returns exactly 0.0 for every input while
\* baseline.is_ready is False
C19_LearningModeScoresZero ==
    (scoreRes.called /\ ~scoreRes.baseline.is_ready) => scoreRes.score.num = 0

\* a call in learning mode whose signals are all at their highest: the
\* composite would be 0.96
C19_Witness ==
    /\ scoreRes.called
    /\ ~scoreRes.baseline.is_ready
    /\ scoreRes.score.num = 0
    /\ LET c == Composite(scoreRes.features, scoreRes.baseline,
                          scoreRes.rate_ratio, scoreRes.behavior_score)
       IN  c.num = 960 /\ c.den = 1000

----------------------------------------------------------------------------
(* The ML model: samples, trainings and predictions *)

RawScores == {-7, 0, 7}

\* the clock is read between the calls on the event loop, not inside
\* score() and not between the assignments of _train_sync
MlTick ==
    /\ LoopThreadFree
    /\ ~Installing
    /\ Tick(MlTickStep, MlMaxClock)

NextMl ==
    \/ \E found \in BOOLEAN : Construct(found)
    \/ RecordSample
    \/ \E fn \in {"score", "predict_label"} : PredictBegin(fn)
    \/ PredictScale
    \/ \E raw \in RawScores : MlScore(raw)
    \/ \E label \in {1, -1} : MlPredictLabel(label)
    \/ \E c \in Callers : MaybeTrainCheck(c)
    \/ \E c \in Callers : TrainBegin(c)
    \/ \E c \in Callers, ok \in BOOLEAN : TrainFit(c, ok)
    \/ \E c \in Callers : InstallModel(c)
    \/ \E c \in Callers : InstallScaler(c)
    \/ \E c \in Callers : SetTrained(c)
    \/ \E c \in Callers : SetLastTrain(c)
    \/ \E c \in Callers : CountTrain(c)
    \/ \E c \in Callers : TrainEnd(c)
    \/ \E c \in Callers : TrainRaise(c)
    \/ MlTick

SpecMl == Init /\ [][NextMl]_vars

\* the predictions of a model that is not ready
NotReadyPredictions ==
    /\ (mlScoreRes.fn = "score" /\ ~mlScoreRes.ready) => mlScoreRes.value = 0
    /\ (mlScoreRes.fn = "predict_label" /\ ~mlScoreRes.ready) => mlScoreRes.value = 1

\* the first training: only with min_train_samples in the buffer, else False
\* and the model not ready; ready after it
FirstTraining ==
    /\ (mlRes.out = "True" /\ ~mlRes.was_trained) =>
          (mlRes.buffer >= MinTrainSamples /\ mlRes.ready_after)
    /\ (mlRes.out = "False" /\ ~mlRes.was_trained) =>
          (mlRes.buffer < MinTrainSamples /\ ~mlRes.ready_after)

\* a training of a trained model began retrain_interval_sec or more after
\* the last training, with 100 samples or more
RetrainSpaced ==
    (mlRes.out = "True" /\ mlRes.was_trained) =>
        (mlRes.elapsed >= RETRAIN_INTERVAL /\ mlRes.buffer >= RETRAIN_MIN_SAMPLES)

\* C20: ML lifecycle: while the model is not ready score() returns 0.0 and
\* predict_label() returns 1; maybe_train performs the first training only
\* when the buffer holds at least min_train_samples samples (otherwise it
\* returns False and the model stays not ready), the model is ready after
\* that training, and a later maybe_train retrains only if at least
\* retrain_interval_sec has elapsed since the last training and the buffer
\* holds at least 100 samples
C20_Lifecycle == NotReadyPredictions /\ FirstTraining /\ RetrainSpaced

\* the lifecycle of the calls that no other maybe_train() call overlapped
LifecycleOfCallsAlone ==
    /\ NotReadyPredictions
    /\ FirstTraining
    /\ ~mlRes.overlapped => RetrainSpaced

\* a retraining that no other call overlapped
RetrainedAlone ==
    /\ mlRes.out = "True"
    /\ mlRes.was_trained
    /\ ~mlRes.overlapped
    /\ mlTrainCount = 2

\* the callers inside `async with self._lock`: their _train_sync is running
\* on a worker thread or has just ended
Training == {c \in Callers : mlCall[c].pc \notin {"idle", "lock", "dead"}}

C29_ScalerAndModelOfOneRun ==
    mlScoreRes.ready =>
        /\ mlScoreRes.scaler # 0
        /\ mlScoreRes.model # 0
        /\ mlScoreRes.scaler = mlScoreRes.model

\* what a call on a ready model may use: a scaler and a model that exist,
\* the model of the same run as the scaler or of the run after it
ModelAtMostOneRunAhead ==
    mlScoreRes.ready =>
        /\ mlScoreRes.scaler # 0
        /\ mlScoreRes.model \in {mlScoreRes.scaler, mlScoreRes.scaler + 1}

\* a call that used the scaler and the model of the second training run
ScoredAfterRetrain ==
    /\ mlScoreRes.ready
    /\ mlScoreRes.scaler = 2
    /\ mlScoreRes.model = 2

\* C39: after a training of the ML model has completed, no further training
\* is performed until retrain_interval_sec has elapsed, also when
\* maybe_train is called by the learn loop and by the manual endpoint while
\* a training is in progress
C39_NoTrainingWithinInterval ==
    (mlRes.out = "True" /\ mlRes.was_trained) =>
        mlRes.elapsed >= RETRAIN_INTERVAL

\* the trainings of calls that no other maybe_train() call overlapped keep
\* the interval
IntervalKeptAlone ==
    (mlRes.out = "True" /\ mlRes.was_trained /\ ~mlRes.overlapped) =>
        mlRes.elapsed >= RETRAIN_INTERVAL

\* the learn loop can start its next cycle
NextCycleOpen ==
    started < MaxMlCalls => ENABLED MaybeTrainCheck("loop")

\* C30: a training run that raises leaves is_ready, the model and the
\* scaler, train_count and last_train_time as they were before it; the
\* exception ends in maybe_train()'s caller, the learn loop or the admin
\* call, and the learn loop stays alive: its next cycle calls update_model
\* and maybe_train again
C30_RaisedTrainingChangesNothing ==
    /\ \A c \in Callers : mlCall[c].pc = "raise" => Resident = mlCall[c].before
    /\ mlRes.out = "raised" =>
          /\ mlRes.unchanged
          /\ mlRes.ready_after = (mlRes.was_trained /\ mlModel # 0)
          /\ mlRes.caller \in Callers
          /\ mlLock = "none"
          /\ mlRes.caller = "loop" => NextCycleOpen
    /\ mlCall["loop"].pc # "dead"

\* a retraining by the learn loop raised, and a later cycle of the loop
\* has retrained the model
C30_Witness ==
    /\ "loop" \in mlRaised
    /\ mlRes.caller = "loop"
    /\ mlRes.out = "True"
    /\ mlRes.was_trained
    /\ mlTrainCount = 2
    /\ blCallAt = Now

----------------------------------------------------------------------------
(* The classifier called directly *)

NextCls == \E in \in ClassifierInputs : ClassifyCall(in)

SpecCls == Init /\ [][NextCls]_vars

\* the rules of the claim, in its order
RulesInOrder(in) ==
    << [label |-> "http_flood", holds |-> FloodWithBot(in)],
       [label |-> "http_flood", holds |-> FloodAlone(in)],
       [label |-> "slowloris", holds |-> Slowloris(in)],
       [label |-> "credential_stuffing", holds |-> CredentialStuffing(in)],
       [label |-> "api_abuse", holds |-> ApiAbuse(in)],
       [label |-> "scraping", holds |-> Scraping(in)] >>
Matching(in) == {i \in 1..6 : RulesInOrder(in)[i].holds}
EarliestLabel(in) ==
    IF Matching(in) = {} THEN "None"
    ELSE RulesInOrder(in)[CHOOSE i \in Matching(in) :
                             \A j \in Matching(in) : i <= j].label

\* C22: the classifier returns the label of the earliest rule, in the order
\* HTTP_FLOOD (r > 0.6 with empty UA or behavior > 0.5), HTTP_FLOOD
\* (r > 0.85), SLOWLORIS, CREDENTIAL_STUFFING, API_ABUSE, SCRAPING, that its
\* input satisfies, None if it satisfies none, and a rate_limit <= 0 is
\* treated as r = 0
C22_FirstMatchWins ==
    clsRes.called =>
        /\ clsRes.label = EarliestLabel(clsRes.in)
        /\ clsRes.in.rate_limit <= 0 =>
              clsRes.label = EarliestLabel([clsRes.in EXCEPT !.rate_count = 0,
                                                              !.rate_limit = 100])

\* an input that satisfies the first flood rule, the slowloris rule and the
\* credential-stuffing rule is labelled http_flood
C22_Witness ==
    /\ clsRes.called
    /\ FloodWithBot(clsRes.in)
    /\ Slowloris(clsRes.in)
    /\ CredentialStuffing(clsRes.in)
    /\ clsRes.label = "http_flood"

\* the request of scenario E3
E3Request(in) ==
    /\ in.method = "POST"
    /\ in.path = "/"
    /\ in.content_length = 10000
    /\ in.behavior_score > 3
    /\ ~FloodWithBot(in)
    /\ ~FloodAlone(in)

----------------------------------------------------------------------------
(* match_request called directly *)

NextMatch ==
    \E rs \in RuleLists, path \in MatchPaths, method \in MatchMethods :
        MatchCall(rs, path, method)

SpecMatch == Init /\ [][NextMatch]_vars

\* the path matcher of the claim: a rule path ending in * accepts the paths
\* that start with the part before the *, another one the equal path, and a
\* rule without a path accepts every path
PathAccepted(rule, path) ==
    \/ rule.match_path = ""
    \/ /\ EndsWith(rule.match_path, "*")
       /\ \E n \in 0..Len(path) :
             SubSeq(path, 1, n) \o "*" = rule.match_path
    \/ ~EndsWith(rule.match_path, "*") /\ rule.match_path = path
MethodAccepted(rule, method) ==
    rule.match_method = "" \/ Lower(rule.match_method) = Lower(method)
Selected(rs, path, method) ==
    {i \in DOMAIN rs : /\ rs[i].enabled
                       /\ PathAccepted(rs[i], path)
                       /\ MethodAccepted(rs[i], method)}
\* sq lists the entries of rs at the positions in sel, each once, in order
ListsExactly(sq, rs, sel) ==
    /\ Len(sq) = Cardinality(sel)
    /\ \E f \in [1..Len(sq) -> sel] :
          /\ \A a, b \in 1..Len(sq) : a < b => f[a] < f[b]
          /\ \A a \in 1..Len(sq) : sq[a] = rs[f[a]]

\* C24: match_request(path, method) returns exactly the enabled rules whose
\* path matcher accepts the path (a rule path ending in * accepts the paths
\* starting with the part before the *, otherwise exact case-sensitive
\* equality, no path accepts all) and whose method, if given, equals the
\* request method case-insensitively; /api/login* accepts /api/login and
\* /api/login/foo and not /api/LOGIN
C24_MatchRequest ==
    matchRes.called =>
        /\ ListsExactly(matchRes.matched, matchRes.rules,
                        Selected(matchRes.rules, matchRes.path, matchRes.method))
        /\ \A i \in DOMAIN matchRes.rules :
              (matchRes.rules[i].name = "login" /\ Lower(matchRes.method) = "post")
              => ( (\E k \in DOMAIN matchRes.matched :
                        matchRes.matched[k] = matchRes.rules[i])
                   <=> matchRes.path \in {"/api/login", "/api/login/foo"} )

\* POST /api/login/foo in lower case against the wildcard rule and its
\* disabled twin: the wildcard rule alone is returned
C24_Witness ==
    /\ matchRes.called
    /\ matchRes.path = "/api/login/foo"
    /\ matchRes.method = "post"
    /\ Len(matchRes.rules) = 2
    /\ matchRes.rules[1].name = "off"
    /\ matchRes.rules[2].name = "login"
    /\ matchRes.matched = <<matchRes.rules[2]>>

----------------------------------------------------------------------------
(* The baseline called directly *)

BlTickStep == 30000
BlMaxClock == 150000

NextBl ==
    \/ \E ts \in {Now, Now - StepBack} : RecordObservation(ts)
    \/ UpdateModel
    \/ Tick(BlTickStep, BlMaxClock)

SpecBl == Init /\ [][NextBl]_vars

\* C25: after every record_observation(features) and every update_model()
\* no retained observation has a timestamp below now - W, whatever the order
\* of the timestamps recorded
C25_WindowPruned ==
    blCallAt >= 0 =>
        \A i \in 1..Len(blObs) : blObs[i] >= blCallAt - DEFAULT_WINDOW_SEC

\* the deque is in the order of its timestamps
InOrder(obs) == \A i, j \in 1..Len(obs) : i < j => obs[i] <= obs[j]

\* as long as the timestamps arrive in order, the calls leave nothing older
\* than the window
PrunedWhenInOrder == InOrder(blObs) => C25_WindowPruned

\* a call that evicted an old observation from an ordered deque
EvictedInOrder ==
    /\ blCallAt >= 0
    /\ InOrder(blObs)
    /\ blObs # <<>>
    /\ blCallAt - Head(blObs) > DEFAULT_WINDOW_SEC - BlTickStep
    /\ blCallAt > Epoch + DEFAULT_WINDOW_SEC

----------------------------------------------------------------------------
(* The baseline fed by bursts of requests *)

NextReady ==
    \/ RecordBurst(ObsStep)
    \/ UpdateModel
    \/ Tick(BlTickStep, BlMaxClock)

SpecReady == Init /\ [][NextReady]_vars

\* is_ready stays, is set only by an update that is left with
\* MIN_OBSERVATIONS observations, and a step that leaves fewer changes
\* neither is_ready nor the statistics
ReadyStep ==
    /\ blReady => blReady'
    /\ (~blReady /\ blReady') =>
          /\ blObs' = EvictOld(blObs, Now)
          /\ Len(blObs') >= MIN_OBSERVATIONS
    /\ Len(blObs') < MIN_OBSERVATIONS =>
          (blReady' = blReady /\ blStats' = blStats)

\* C37: baseline is_ready is set only by an update_model() pass that sees at
\* least 100 retained observations (an update with fewer leaves is_ready and
\* all statistics unchanged), and once True it stays True for the rest of
\* the process, also when later eviction brings the observation count below
\* 100
C37_ReadyOnceReady ==
    /\ [](blReady <=> blStats.n >= MIN_OBSERVATIONS)
    /\ [][ReadyStep]_vars

\* the baseline is ready on the statistics of 100 observations, and an
\* update has pruned the window to fewer
C37_Witness ==
    /\ blReady
    /\ blStats.n = 2 * ObsStep
    /\ blObs # <<>>
    /\ Len(blObs) < MIN_OBSERVATIONS
    /\ Len(blObs) < blStats.n
    /\ Head(blObs) >= Now - DEFAULT_WINDOW_SEC

----------------------------------------------------------------------------
(* The proxy with the admin calls unblock(ip) and allow(ip) beside it, over
   a long time *)

BanTickStep == 100000
BanMaxClock == 200000

\* one rule file, a proxied path without rule, the rule's path and a reserved
\* path; the levels that block and one that does not
BanLadders == { <<Step(100, "block", "")>> }
BanPaths == {"/", "/login", "/ws/live"}
BanLevels == {"monitor", "block", "blackhole"}

NextBan ==
    \/ \E ladder \in BanLadders : LoadRules(ladder)
    \/ \E r \in Reqs, ip \in Clients, path \in BanPaths :
          Request(r, ip, path, "")
    \/ \E r \in Reqs : IsBlockedAllowlist(r)
    \/ \E r \in Reqs : IsBlockedKey(r)
    \/ \E r \in Reqs : IsBlockedSet(r)
    \/ \E r \in Reqs : RuleCheck(r)
    \/ \E r \in Reqs : RlLayer(r)
    \/ \E r \in Reqs : RlCount(r)
    \/ \E r \in Reqs, threat \in ThreatScores, level \in BanLevels, uam \in BOOLEAN :
          Detect(r, threat, level, uam)
    \/ \E r \in Reqs : BlockAndForbid(r)
    \/ \E r \in Reqs, ok \in BOOLEAN : Forward(r, ok)
    \/ \E r \in Reqs : Close(r)
    \/ \E r \in Reqs, ip \in Clients : UnblockDelete(r, ip)
    \/ \E r \in Reqs : UnblockSrem(r)
    \/ \E ip \in Clients : BlockerAllow(ip)
    \/ Tick(BanTickStep, BanMaxClock)
    \/ KvLost

SpecBan == Init /\ [][NextBan]_vars

\* C26: once the detection stage has blocked an ip (BLOCK, BLACKHOLE or
\* under-attack mode), every later request of that ip to a proxied path is
\* answered 403 at the block check, however much later, as long as
\* unblock(ip) is not called, the ip is not allowlisted and Redis answers
C26_BlockedStaysBlocked ==
    /\ \A r \in ban.late :
          req[r].op = "req" =>
              /\ req[r].pc \in {"ib_allow", "ib_key", "ib_set", "done"}
              /\ Done(r) => (req[r].status = 403 /\ req[r].stage = "blocklist")
    /\ \A ip \in ban.ips : OnBlocklist(ip) /\ ~OnAllowlist(ip) /\ KvOk

\* a request that arrived 100000 s after the block and got its 403 at the
\* block check
C26_Witness ==
    \E r \in ban.late :
        /\ Done(r)
        /\ req[r].op = "req"
        /\ req[r].status = 403
        /\ req[r].stage = "blocklist"
        /\ req[r].now >= BanTickStep
        /\ ~HasBlockKey(req[r].ip)

----------------------------------------------------------------------------
(* More clients than the analyzer tracks *)

MaxCapCalls == 5
CapProfiles == {p \in Profiles : p.path = "/"}

CapRecord(ip, p) ==
    /\ started < MaxCapCalls
    /\ RecordAndScore(ip, p)

CapTick(d) ==
    /\ started >= 1
    /\ started < MaxCapCalls
    /\ behRes.now = Now
    /\ Tick(d, BehMaxClock)

NextCap ==
    \/ \E ip \in BehIPs, p \in CapProfiles : CapRecord(ip, p)
    \/ \E d \in BehSteps : CapTick(d)

SpecCap == Init /\ [][NextCap]_vars

WithinCapacity == Cardinality(Tracked(sessions)) <= MAX_TRACKED

\* a record_and_score step for an ip without session, the table being full
\* after the cleanup of the call: one session leaves, none has a smaller
\* last_seen than it had, the others stay as they are, the ip gets in
EvictionStep ==
    LET mid == AfterCleanup(Now)
        ip == behRes'.ip
    IN  (sessions' # sessions /\ mid[ip] = NoSession) =>
            IF Cardinality(Tracked(mid)) >= MAX_TRACKED
            THEN \E v \in Tracked(mid) :
                    /\ \A w \in Tracked(mid) : mid[v].last_seen <= mid[w].last_seen
                    /\ Tracked(sessions') = (Tracked(mid) \ {v}) \cup {ip}
                    /\ \A w \in Tracked(mid) \ {v} : sessions'[w] = mid[w]
            ELSE /\ Tracked(sessions') = Tracked(mid) \cup {ip}
                 /\ \A w \in Tracked(mid) : sessions'[w] = mid[w]

\* C27: the tracked sessions never exceed MAX_TRACKED; when a new ip arrives
\* at capacity exactly one session is evicted before the insert, and it has
\* the smallest last_seen
C27_CapacityEviction == []WithinCapacity /\ [][EvictionStep]_vars

\* three clients were recorded within the session lifetime, two are tracked,
\* the last one is new and the one evicted for it is not the one seen last
\* before
C27_Witness ==
    /\ Cardinality(recorded) = 3
    /\ Cardinality(Tracked(sessions)) = MAX_TRACKED
    /\ clock < SESSION_TTL
    /\ behRes.count = 1
    /\ behRes.ip \in Tracked(sessions)
    /\ \E w \in Tracked(sessions) \ {behRes.ip} :
          /\ sessions[w].last_seen < behRes.now
          /\ sessions[w].request_count >= 2

----------------------------------------------------------------------------
(* Clients that pause for about the session lifetime *)

MaxIdleCalls == 4
IdleSteps == {15, 590, 601}

IdleRecord(ip, p) ==
    /\ started < MaxIdleCalls
    /\ RecordAndScore(ip, p)

\* the clock is read once between two calls
IdleTick(d) ==
    /\ started >= 1
    /\ started < MaxIdleCalls
    /\ behRes.now = Now
    /\ Tick(d, BehMaxClock)

NextIdle ==
    \/ \E ip \in VariedIPs, p \in CapProfiles : IdleRecord(ip, p)
    \/ \E d \in IdleSteps : IdleTick(d)

SpecIdle == Init /\ [][NextIdle]_vars

\* the last call updated a session that existed: the pause it recorded
UpdatedExisting == behRes.ip # "none" /\ behRes.count > 1
LastPause ==
    LET iat == sessions[behRes.ip].inter_arrival_times
    IN  iat[Len(iat)]

\* C28: a session idle for more than 600 s is removed rather than reused:
\* whenever record_and_score updates an existing session, its last_seen was
\* at most 600 s before now
C28_IdleSessionNotReused ==
    UpdatedExisting => LastPause <= SESSION_TTL

\* a session is reused after a pause below the lifetime plus the cleanup
\* interval
ReusedWithinTtlAndInterval ==
    UpdatedExisting => LastPause < SESSION_TTL + CLEANUP_EVERY

\* a client that returns after 601 s, the cleanup being due, starts anew
FreshAfterPause ==
    /\ behRes.ip # "none"
    /\ behRes.count = 1
    /\ behCalls[behRes.ip] = 1
    /\ behRes.now > Epoch + SESSION_TTL
    /\ Cardinality(recorded) = 1
    /\ sessions[behRes.ip].inter_arrival_times = <<>>


\* no request that arrived from an allowlisted ip is answered 403
AllowlistedNot403 ==
    \A r \in ban.trusted : Done(r) => req[r].status # 403

\* the pipeline writes no block of an allowlisted ip
NoBlockOfAllowlisted ==
    \A ip \in allowlist :
        /\ ip \in blocklist' => ip \in blocklist
        /\ blockKey'[ip] # 0 => blockKey[ip] # 0

\* C35: a request from an allowlisted ip is never answered 403 by any stage
\* of the pipeline, and the pipeline never adds an allowlisted ip to the
\* blocklist, whatever the threat score, the protection level and
\* under-attack mode
C35_AllowlistedNeverForbidden ==
    /\ []AllowlistedNot403
    /\ [][NoBlockOfAllowlisted]_vars

\* the block check lets every request of an allowlisted ip through
AllowlistedPassBlockCheck ==
    \A r \in ban.trusted :
        /\ req[r].pc \notin {"ib_key", "ib_set"}
        /\ Done(r) => req[r].stage # "blocklist"

\* a request that arrived from an allowlisted ip has been forwarded
AllowlistedForwarded ==
    \E r \in ban.trusted :
        /\ Done(r)
        /\ req[r].status = 200
        /\ req[r].ip \in allowlist

----------------------------------------------------------------------------
(* Claims on the traffic counters, checked under Spec *)

\* C36: in every reachable state of the traffic counters, blocked_requests
\* + rate_limited_requests + challenged_requests + forwarded_requests is at
\* most total_requests: a request admitted to the pipeline is counted in at
\* most one outcome counter
C36_OneOutcomePerRequest ==
    traffic.blocked + traffic.rate_limited + traffic.challenged
        + traffic.forwarded <= traffic.total

\* every outcome counter by itself stays within total_requests, and a
\* request is counted at most twice
CountersEachWithinTotal ==
    /\ traffic.blocked <= traffic.total
    /\ traffic.rate_limited <= traffic.total
    /\ traffic.challenged <= traffic.total
    /\ traffic.forwarded <= traffic.total
    /\ traffic.blocked + traffic.rate_limited + traffic.challenged
          + traffic.forwarded <= 2 * traffic.total

\* every admitted request has one outcome, counted once
AllCountedOnce ==
    /\ traffic.total = MaxRequests
    /\ traffic.blocked = 1
    /\ traffic.forwarded = 1
    /\ traffic.rate_limited = 0
    /\ traffic.challenged = 0

----------------------------------------------------------------------------
(* score_request called by the proxy, among the bursts of other requests,
   the learn loop and the training it starts *)

MaxEngLoops == 1
EngBurst == 100

NextEng ==
    \/ \E found \in BOOLEAN : EngIdle /\ Construct(found)
    \/ EngIdle /\ RecordSample
    \/ EngIdle /\ RecordBurst(EngBurst)
    \/ EngIdle /\ started < MaxEngLoops /\ MaybeTrainCheck("loop")
    \/ EngIdle /\ TrainBegin("loop")
    \/ TrainFit("loop", TRUE)
    \/ InstallModel("loop")
    \/ InstallScaler("loop")
    \/ SetTrained("loop")
    \/ SetLastTrain("loop")
    \/ CountTrain("loop")
    \/ EngIdle /\ TrainEnd("loop")
    \/ \E c \in EngClients, rate_count \in EngRateCounts :
          EngCall(c.ip, c.request, rate_count)
    \/ EngBehavior
    \/ \E st \in EngStats : EngHeuristic(st)
    \/ \E raw \in RawScores : EngMlScore(raw)
    \/ EngBlend
    \/ EngRecordSample
    \/ EngRecordObservation
    \/ EngReturn

SpecEng == Init /\ [][NextEng]_vars

\* C31: for every request that crosses the anomaly threshold, the behavior
\* score the proxy hands to the classifier, recomputed from get_session with
\* a fresh analyzer, equals the behavior score record_and_score computed for
\* that request during score_request, whatever the order in which the
\* concurrent requests run
C31_RecomputedScoreIsTheSame ==
    (EngIdle /\ eng.out = "classified") => eng.bscore_val = eng.behavior_score

\* the third request of a client crosses the threshold with a behavior
\* score above zero, after a request of another client
C31_Witness ==
    /\ EngIdle
    /\ eng.out = "classified"
    /\ eng.count = 3
    /\ eng.behavior_score.num > 0
    /\ eng.bscore_val = eng.behavior_score
    /\ Cardinality(Tracked(sessions)) = 2

\* the positions at which the heuristic score has been computed
PastHeuristic == {"ml", "blend", "sample", "observe", "return"}

\* C38: learning mode: while the baseline is not ready the detection score
\* is 0 if the ML model is not ready and at most 0.4 if it is, so with
\* anomaly_threshold at 0.75 the detection stage challenges, rate-limits and
\* blocks no request, whatever the request and its rate
C38_LearningModePasses ==
    (EngIdle /\ eng.out # "none" /\ eng.learning) =>
        /\ ~eng.ml_ready => eng.score.num = 0
        /\ eng.ml_ready => ~FLess(Frac(4, 10), eng.score)
        /\ eng.out = "passed"

\* the request of a bot at twice its rate limit, scored 0.4 in learning
\* mode by a ready ML model that finds it as anomalous as can be
C38_Witness ==
    /\ EngIdle
    /\ eng.out = "passed"
    /\ eng.learning
    /\ eng.ml_ready
    /\ eng.request = EngBot
    /\ eng.rate_count = 2
    /\ eng.ml_score = 10
    /\ eng.score = Frac(2, 5)

\* the request is the last one of its session
RecordedLast(e) ==
    LET s == sessions[e.ip]
    IN  /\ s # NoSession
        /\ s.request_count = e.count
        /\ s.paths_visited # <<>>
        /\ s.paths_visited[Len(s.paths_visited)] = e.request.profile.path

\* C40: within score_request the request is recorded into the behavior
\* session before its behavior score is computed, its ML sample and its
\* baseline observation are appended only after the heuristic and the ML
\* score have been computed, so that the request influences neither the
\* statistics of the baseline nor the ML buffer used to score it, and the
\* score returned is within [0, 1]
C40_OrderInsideScoreRequest ==
    /\ eng.pc \in PastHeuristic \cup {"heuristic"} =>
          /\ RecordedLast(eng)
          /\ eng.behavior_score = ComputeScore(sessions[eng.ip])
    /\ eng.pc \in PastHeuristic => eng.h_after = {}
    /\ eng.pc \in PastHeuristic \ {"ml"} => eng.m_after = {}
    /\ ~EngIdle => blStats = eng.stats_before
    /\ (EngIdle /\ eng.out # "none") =>
          /\ eng.h_after = {}
          /\ eng.m_after = {}
          /\ eng.appended = {"sample", "observation"}
          /\ eng.score.num >= 0
          /\ eng.score.num <= eng.score.den

\* a request scored above zero by a ready baseline and a ready ML model has
\* returned, its sample and its observation appended
C40_Witness ==
    /\ EngIdle
    /\ eng.out # "none"
    /\ ~eng.learning
    /\ eng.ml_ready
    /\ eng.heuristic_score.num > 0
    /\ eng.ml_score > 0
    /\ eng.appended = {"sample", "observation"}
    /\ eng.count >= 3
    /\ eng.behavior_score.num > 0

====
